---- MODULE Spec2Model ----
(***************************************************************************)
(* State-machine model of the cache-and-routing control layer of           *)
(* multi-agent-rag-gpt: CacheAgent (agents/cache_agent.py),                *)
(* ConversationMemory (agents/conversation_memory.py), HITLManager         *)
(* (agents/hitl.py), ManagerAgent (agents/manager_agent.py), the session   *)
(* script (app.py) and the financial tools (mcp/financial_tools.py,        *)
(* mcp/financial_mcp.py).                                                  *)
(*                                                                         *)
(* Strings are sequences of one-character strings.  Similarities and the   *)
(* similarity threshold are kept in hundredths (0.8 is 80), embeddings are *)
(* integer vectors whose norms are integers, so that the cosine is exact.  *)
(***************************************************************************)
EXTENDS Integers, Sequences, FiniteSets, TLC

(***************************************************************************)
(* Bounds of the model.                                                    *)
(***************************************************************************)
MaxLen == 2        \* longest query text
MaxCap == 2        \* largest configured max_cache_size
MaxNorm == 5       \* largest norm of an embedding vector
MaxCalls == 2      \* calls one thread makes on the shared cache
MaxWindow == 2     \* largest window_size or max_messages passed to ConversationMemory
MaxAdds == 5       \* messages added to one ConversationMemory
MaxConcAdds == 4   \* messages added by the threads sharing one ConversationMemory
MaxWords == 5      \* most words in a query given to assess_question
MaxAnswerLen == 5  \* longest answer given to assess_answer_confidence
MaxPrompts == 2    \* prompts one session handles
MaxTools == 1      \* tool calls the agent makes in one agent.invoke

DEFAULT_WINDOW_SIZE == 10

NoneKey == <<"None">>  \* Python's None where a key is expected
NoneEmb == <<>>        \* Python's None where an embedding is expected
Raise == <<0>>         \* the embed model raising an exception
NotCalled == <<1>>     \* the embed model was not called

Chars == {"a", "A", " "}
RECURSIVE SeqsUpTo(_)
SeqsUpTo(n) ==
    IF n = 0 THEN {<<>>}
    ELSE LET S == SeqsUpTo(n - 1) IN S \cup {Append(s, c) : s \in S, c \in Chars}
Queries == SeqsUpTo(MaxLen)
Responses == {"r1", "r2"}
Contexts == {<<"ctx">>}
TokenInfos == {"tok"}
Vecs == {<<1, 0>>, <<4, 3>>, <<0, 1>>}
Thresholds == {0, 80}
EmbedOutcomes == Vecs \cup {NoneEmb, Raise}

VARIABLES
    max_size,              \* CacheAgent.max_size
    similarity_threshold,  \* CacheAgent.similarity_threshold, in hundredths
    cache,                 \* CacheAgent.cache: OrderedDict as a sequence of [key, data]
    cache_embeddings,      \* CacheAgent.cache_embeddings: OrderedDict as a sequence of [key, emb]
    result,                \* the last call on the cache: its arguments, locals and return value
    pc,                    \* per thread: where its call on the shared cache stands
    local,                 \* per thread: the local variables of its suspended call
    tret,                  \* per thread: what its last call returned
    calls,                 \* per thread: the calls it has made
    lin,                   \* per thread: what its pending get would have returned, run at once,
                           \* in each state of the cache since the call began
    window_size,           \* ConversationMemory._window_size
    messages,              \* ConversationMemory.chat_history.messages
    appended,              \* every turn added since construction or clear, in order
    mpc,                   \* per thread: where its call on the shared memory stands
    mlocal,                \* per thread: the local `messages` of its _trim_to_window call
    mret,                  \* per thread: what its last enrich_query returned
    hitl_args,             \* the arguments of the call on HITLManager
    hitl_ret,              \* what the call on HITLManager returned
    rpc,                   \* where the handling of the session's prompt stands
    prompt,                \* app.py: prompt
    cached,                \* app.py: cached, what the cache lookup returned
    session_messages,      \* st.session_state.messages
    last_contexts,         \* ManagerAgent._last_contexts
    needle_contexts,       \* NeedleAgent._contexts
    rlocal,                \* route's locals: assessment, contextual_query
    route_ret,             \* what route returned: answer, contexts, meta
    stream_pos,            \* route_stream: the next character to yield
    chunks,                \* the elements route_stream has yielded for this prompt
    full_response,         \* app.py: full_response
    app_contexts,          \* app.py: contexts
    handled,               \* prompts the script has finished with
    tool_calls,            \* tool calls the agent made in this agent.invoke
    events,                \* what the handling of this prompt has done, in order
    before,                \* cache and memory as the prompt arrived
    mcp_args,              \* the arguments of the call on the financial tools
    mcp_ret                \* what the call on the financial tools returned

cacheVars == <<max_size, similarity_threshold, cache, cache_embeddings>>
threadVars == <<pc, local, tret, calls, lin>>
memVars == <<window_size, messages, appended>>
memThreadVars == <<mpc, mlocal, mret>>
hitlVars == <<hitl_args, hitl_ret>>
routerVars == <<rpc, prompt, cached, session_messages, last_contexts, needle_contexts,
                rlocal, route_ret, stream_pos, chunks, full_response, app_contexts,
                handled, tool_calls, events, before>>
mcpVars == <<mcp_args, mcp_ret>>
extVars == <<memThreadVars, hitlVars, routerVars, mcpVars>>
vars == <<cacheVars, result, threadVars, memVars, extVars>>

(***************************************************************************)
(* OrderedDict, as a sequence of [key |-> k, val |-> v] in insertion order *)
(***************************************************************************)
Keys(od) == {od[i].key : i \in 1..Len(od)}
Has(od, k) == k \in Keys(od)
Lookup(od, k) == od[CHOOSE i \in 1..Len(od) : od[i].key = k].val
\* od[k] = v: an existing key keeps its position, a new key goes last
SetItem(od, k, v) ==
    IF Has(od, k)
    THEN [i \in 1..Len(od) |-> IF od[i].key = k THEN [key |-> k, val |-> v] ELSE od[i]]
    ELSE Append(od, [key |-> k, val |-> v])
\* od.pop(k, None)
PopKey(od, k) == SelectSeq(od, LAMBDA e : e.key # k)

(***************************************************************************)
(* CacheAgent._normalize: query.lower().strip()                            *)
(***************************************************************************)
LowerChar(c) == IF c = "A" THEN "a" ELSE c
Lower(s) == [i \in 1..Len(s) |-> LowerChar(s[i])]
IsSpace(c) == c = " "
RECURSIVE LStrip(_)
LStrip(s) == IF s # <<>> /\ IsSpace(Head(s)) THEN LStrip(Tail(s)) ELSE s
RECURSIVE RStrip(_)
RStrip(s) == IF s # <<>> /\ IsSpace(s[Len(s)]) THEN RStrip(SubSeq(s, 1, Len(s) - 1)) ELSE s
Strip(s) == RStrip(LStrip(s))
normalizeNoLower(query) == Strip(query)
normalize(query) == Strip(Lower(query))

(***************************************************************************)
(* CacheAgent._embed: the embed model's outcome, an exception caught       *)
(***************************************************************************)
embedNoCatch(outcome) == outcome
embed(outcome) == IF outcome = Raise THEN NoneEmb ELSE outcome

(***************************************************************************)
(* CacheAgent._cosine, in hundredths                                       *)
(***************************************************************************)
Dot(a, b) == a[1] * b[1] + a[2] * b[2]
Norm(a) == CHOOSE n \in 0..MaxNorm : n * n = Dot(a, a)
cosine(a, b) ==
    IF a = NoneEmb \/ b = NoneEmb THEN 0
    ELSE (100 * Dot(a, b)) \div (Norm(a) * Norm(b))

(***************************************************************************)
(* Return values                                                           *)
(***************************************************************************)
Miss == [kind |-> "miss"]
Hit(data, sim) == [kind |-> "hit", data |-> data, similarity |-> sim]
Raised(exc) == [kind |-> "raise", exc |-> exc]
Returned == [kind |-> "none"]

(***************************************************************************)
(* CacheAgent.get                                                          *)
(***************************************************************************)
\* the loop over cache_embeddings.items(), from item i on
RECURSIVE scan(_, _, _, _, _, _)
scan(embs, query_emb, thr, i, best_key, best_sim) ==
    IF i > Len(embs) THEN [best_key |-> best_key, best_sim |-> best_sim]
    ELSE LET sim == cosine(query_emb, embs[i].val) IN
         IF sim >= thr /\ sim > best_sim
         THEN scan(embs, query_emb, thr, i + 1, embs[i].key, sim)
         ELSE scan(embs, query_emb, thr, i + 1, best_key, best_sim)

\* Python's truth value of best_key: None and the empty string are false
Truthy(k) == k # NoneKey /\ k # <<>>

\* get after the exact-key test failed and the embed model answered `outcome`
\* the lines of get after the loop
get_best(c, best) ==
    IF Truthy(best.best_key)
    THEN IF Has(c, best.best_key)
         THEN Hit(Lookup(c, best.best_key), best.best_sim)
         ELSE Raised("KeyError")
    ELSE Miss

get_similar(c, embs, thr, outcome) ==
    LET query_emb == embed(outcome) IN
    IF query_emb = Raise THEN Raised("EmbedError")
    ELSE IF query_emb = NoneEmb THEN Miss
    ELSE get_best(c, scan(embs, query_emb, thr, 1, NoneKey, 0))

\* a lookup that never finds an entry
getNeverHits(c, embs, thr, query, outcome) == Miss

get(c, embs, thr, query, outcome) ==
    LET key == normalize(query) IN
    IF Has(c, key) THEN Hit(Lookup(c, key), 100)
    ELSE get_similar(c, embs, thr, outcome)

(***************************************************************************)
(* CacheAgent.put                                                          *)
(***************************************************************************)
\* the capacity test and the eviction: the pair of dicts afterwards, and old_key
evictNever(c, embs, max) == [raised |-> FALSE, cache |-> c, embs |-> embs, old_key |-> NoneKey]
evictNewest(c, embs, max) ==
    IF Len(c) >= max
    THEN IF c = <<>>
         THEN [raised |-> TRUE, cache |-> c, embs |-> embs, old_key |-> NoneKey]
         ELSE [raised |-> FALSE, cache |-> SubSeq(c, 1, Len(c) - 1),
               embs |-> PopKey(embs, c[Len(c)].key), old_key |-> c[Len(c)].key]
    ELSE [raised |-> FALSE, cache |-> c, embs |-> embs, old_key |-> NoneKey]
\* an eviction that pops the entry and leaves its embedding
evictKeepsEmbedding(c, embs, max) ==
    IF Len(c) >= max
    THEN IF c = <<>>
         THEN [raised |-> TRUE, cache |-> c, embs |-> embs, old_key |-> NoneKey]
         ELSE [raised |-> FALSE, cache |-> Tail(c), embs |-> embs, old_key |-> Head(c).key]
    ELSE [raised |-> FALSE, cache |-> c, embs |-> embs, old_key |-> NoneKey]
evict(c, embs, max) ==
    IF Len(c) >= max
    THEN IF c = <<>>
         THEN [raised |-> TRUE, cache |-> c, embs |-> embs, old_key |-> NoneKey]
         ELSE [raised |-> FALSE, cache |-> Tail(c),
               embs |-> PopKey(embs, Head(c).key), old_key |-> Head(c).key]
    ELSE [raised |-> FALSE, cache |-> c, embs |-> embs, old_key |-> NoneKey]

Entry(response, contexts, token_info) ==
    [response |-> response, contexts |-> contexts, token_info |-> token_info]

\* the two assignments that end put, once the embed model answered `outcome`
insert(c, embs, key, data, outcome) ==
    LET emb == embed(outcome) IN
    IF emb = Raise THEN [raised |-> TRUE, cache |-> c, embs |-> embs]
    ELSE [raised |-> FALSE,
          cache |-> SetItem(c, key, data),
          embs |-> IF emb # NoneEmb THEN SetItem(embs, key, emb) ELSE embs]

(***************************************************************************)
(* The cache used by one caller at a time                                  *)
(***************************************************************************)
Threads == {1, 2}
NoLocals == [op |-> "none"]

\* CacheAgent.__init__
CacheInit ==
    /\ max_size \in 0..MaxCap
    /\ similarity_threshold \in Thresholds
    /\ cache = <<>>
    /\ cache_embeddings = <<>>
    /\ result = [op |-> "init"]

ThreadsIdle ==
    /\ pc = [t \in Threads |-> "idle"]
    /\ local = [t \in Threads |-> NoLocals]
    /\ tret = [t \in Threads |-> Returned]
    /\ calls = [t \in Threads |-> 0]
    /\ lin = [t \in Threads |-> {}]

\* ConversationMemory() with its defaults
MemoryDefault ==
    /\ window_size = DEFAULT_WINDOW_SIZE
    /\ messages = <<>>
    /\ appended = <<>>

\* no call on the shared memory is in progress
MemThreadsIdle ==
    /\ mpc = [t \in Threads |-> "idle"]
    /\ mlocal = [t \in Threads |-> NoLocals]
    /\ mret = [t \in Threads |-> NoneKey]

\* no call on HITLManager has been made
NotReturned == [kind |-> "pending"]
HitlIdle ==
    /\ hitl_args = [op |-> "none"]
    /\ hitl_ret = NotReturned

\* the cache of a session before its first prompt
CacheDefault ==
    /\ max_size = MaxCap /\ similarity_threshold = 80
    /\ cache = <<>> /\ cache_embeddings = <<>> /\ result = [op |-> "init"]

\* the session before its first prompt: app.py 16-41, ManagerAgent.__init__
RouterIdle ==
    /\ rpc = "idle"
    /\ prompt = NoneKey
    /\ cached = Miss
    /\ session_messages = <<>>
    /\ last_contexts = <<>>
    /\ needle_contexts = <<>>
    /\ rlocal = NoLocals
    /\ route_ret = NotReturned
    /\ stream_pos = 0
    /\ chunks = <<>>
    /\ full_response = <<>>
    /\ app_contexts = <<>>
    /\ handled = 0
    /\ tool_calls = 0
    /\ events = <<>>
    /\ before = [cache |-> <<>>, cache_embeddings |-> <<>>, messages |-> <<>>]

\* no call on the financial tools has been made
McpIdle ==
    /\ mcp_args = [op |-> "none"]
    /\ mcp_ret = NotReturned

ExtIdle == MemThreadsIdle /\ HitlIdle /\ RouterIdle /\ McpIdle

Init == CacheInit /\ ThreadsIdle /\ MemoryDefault /\ ExtIdle

\* outcome: what the embed model does if get calls it
Get(query, outcome) ==
    \E ret \in {get(cache, cache_embeddings, similarity_threshold, query, outcome)} :
    /\ result' = [op |-> "get", query |-> query,
                  outcome |-> IF Has(cache, normalize(query)) THEN NotCalled ELSE outcome,
                  ret |-> ret]
    /\ UNCHANGED <<cacheVars, threadVars, memVars, extVars>>

\* outcome: what the embed model does when put calls it
Put(query, response, contexts, token_info, outcome) ==
    \E ev \in {evict(cache, cache_embeddings, max_size)} :
    \E ins \in {insert(ev.cache, ev.embs, normalize(query),
                       Entry(response, contexts, token_info), outcome)} :
    /\ cache' = IF ev.raised THEN cache ELSE ins.cache
    /\ cache_embeddings' = IF ev.raised THEN cache_embeddings ELSE ins.embs
    /\ result' = [op |-> "put", query |-> query, response |-> response,
                  outcome |-> IF ev.raised THEN NotCalled ELSE outcome,
                  old_key |-> ev.old_key,
                  ret |-> IF ev.raised THEN Raised("KeyError")
                          ELSE IF ins.raised THEN Raised("EmbedError") ELSE Returned]
    /\ UNCHANGED <<max_size, similarity_threshold, threadVars, memVars, extVars>>

Clear ==
    /\ cache' = <<>>
    /\ cache_embeddings' = <<>>
    /\ result' = [op |-> "clear"]
    /\ UNCHANGED <<max_size, similarity_threshold, threadVars, memVars, extVars>>

GetStats ==
    /\ result' = [op |-> "stats",
                  ret |-> [total_cached |-> Len(cache), max_size |-> max_size,
                           similarity_threshold |-> similarity_threshold]]
    /\ UNCHANGED <<cacheVars, threadVars, memVars, extVars>>

Next ==
    \/ \E q \in Queries :
          \E o \in IF Has(cache, normalize(q)) THEN {NotCalled} ELSE EmbedOutcomes : Get(q, o)
    \/ \E q \in Queries, r \in Responses, c \in Contexts, t \in TokenInfos, o \in EmbedOutcomes :
          Put(q, r, c, t, o)
    \/ Clear
    \/ GetStats

Spec == Init /\ [][Next]_vars

(***************************************************************************)
(* Properties of the cache used by one caller at a time                    *)
(***************************************************************************)
FailedOutcomes == {NoneEmb, Raise}
PutStored(r) == r.op = "put" /\ r.ret = Returned

\* C1: after any sequence of put, get and clear calls, for every configured
\* capacity, the cache holds at most max_size entries and no two entries
\* share a normalized key.
C1_CapacityInvariant ==
    /\ Len(cache) <= max_size
    /\ \A i, j \in 1..Len(cache) : i # j => cache[i].key # cache[j].key
    /\ \A i \in 1..Len(cache) : cache[i].key = normalize(cache[i].key)

C1_Witness ==
    /\ result.op = "put" /\ result.ret = Returned
    /\ result.old_key # NoneKey
    /\ max_size = MaxCap /\ Len(cache) = max_size

\* C2: a put of a new key into a full cache removes exactly the entry that
\* was inserted first and keeps every other entry in order, also right after
\* a get that hit the oldest entry; get and get_stats change neither dict.
C2_InsertionOrderEviction ==
    [][/\ (/\ PutStored(result')
           /\ ~Has(cache, normalize(result'.query))
           /\ Len(cache) >= max_size)
          => /\ Len(cache') = Len(cache)
             /\ SubSeq(cache', 1, Len(cache') - 1) = Tail(cache)
             /\ cache'[Len(cache')].key = normalize(result'.query)
             /\ ~Has(cache', Head(cache).key)
             /\ result'.old_key = Head(cache).key
       /\ (/\ result.op = "get" /\ result.ret.kind = "hit"
           /\ cache # <<>> /\ normalize(result.query) = Head(cache).key
           /\ PutStored(result')
           /\ ~Has(cache, normalize(result'.query))
           /\ Len(cache) >= max_size)
          => ~Has(cache', normalize(result.query))
       /\ (result'.op \in {"get", "stats"})
          => (cache' = cache /\ cache_embeddings' = cache_embeddings)
      ]_vars

C2_Witness ==
    /\ PutStored(result)
    /\ result.old_key # NoneKey
    /\ ~Has(cache, result.old_key)
    /\ Len(cache) = max_size /\ max_size >= 2
    /\ cache[Len(cache)].key = normalize(result.query)

\* C3: a put whose normalized key is already cached overwrites the value and
\* leaves the set of cached keys and the entry count as they were, also when
\* the cache is at capacity.
C3_OverwriteKeepsKeys ==
    [][(PutStored(result') /\ Has(cache, normalize(result'.query)))
          => /\ Keys(cache') = Keys(cache)
             /\ Len(cache') = Len(cache)
             /\ Lookup(cache', normalize(result'.query)).response = result'.response
      ]_vars

\* q2 differs from q1 only in letter case and in leading or trailing whitespace
SameLetter(c, d) == c = d \/ {c, d} = {"a", "A"}
Spaces(s) == \A i \in 1..Len(s) : s[i] = " "
CaseWsVariant(q1, q2) ==
    \E i1, j1 \in 0..Len(q1), i2, j2 \in 0..Len(q2) :
        /\ i1 + j1 <= Len(q1) /\ i2 + j2 <= Len(q2)
        /\ Spaces(SubSeq(q1, 1, i1)) /\ Spaces(SubSeq(q1, Len(q1) - j1 + 1, Len(q1)))
        /\ Spaces(SubSeq(q2, 1, i2)) /\ Spaces(SubSeq(q2, Len(q2) - j2 + 1, Len(q2)))
        /\ Len(q1) - i1 - j1 = Len(q2) - i2 - j2
        /\ \A k \in 1..(Len(q1) - i1 - j1) : SameLetter(q1[i1 + k], q2[i2 + k])

\* the case and whitespace variants of each query
Variants == [q1 \in Queries |-> {q2 \in Queries : CaseWsVariant(q1, q2)}]
ExactHitOf(r, response) ==
    r.kind = "hit" /\ r.data.response = response /\ r.similarity = 100

\* C4: put(q, answer) stores the answer under a key that is a case and
\* whitespace variant of q, and every get(q2) with q2 such a variant of a
\* cached key, the get right after the put among them, is a hit with that
\* entry and similarity 1.0, whatever the embed model does.
C4_ExactRoundTrip ==
    [][/\ PutStored(result')
          => \E i \in 1..Len(cache') :
               /\ cache'[i].key \in Variants[result'.query]
               /\ cache'[i].val.response = result'.response
       /\ (result'.op = "get")
          => \A i \in 1..Len(cache') :
               cache'[i].key \in Variants[result'.query]
                 => result'.ret = Hit(cache'[i].val, 100)
       /\ (/\ PutStored(result) /\ result'.op = "get"
           /\ result'.query \in Variants[result.query])
          => ExactHitOf(result'.ret, result.response)
      ]_vars

C4_Witness ==
    /\ result.op = "get"
    /\ result.query = <<" ", "A">>
    /\ result.ret.kind = "hit" /\ result.ret.similarity = 100
    /\ Has(cache, <<"a">>) /\ result.ret.data = Lookup(cache, <<"a">>)

\* C5: when get finds no exact key and the embed model answers, get returns
\* the entry of highest similarity among those whose stored embedding is at
\* least similarity_threshold similar to the query, with that similarity, and
\* a miss only if there is none; for every cached key and every threshold.
C5_BestSimilarEntry ==
    (/\ result.op = "get"
     /\ ~Has(cache, normalize(result.query))
     /\ result.outcome \in Vecs)
    => LET sim(i) == cosine(result.outcome, cache_embeddings[i].val)
           cands == {i \in 1..Len(cache_embeddings) : sim(i) >= similarity_threshold}
       IN IF cands = {} THEN result.ret = Miss
          ELSE /\ result.ret.kind = "hit"
               /\ \E i \in cands :
                    /\ \A j \in cands : sim(i) >= sim(j)
                    /\ result.ret.similarity = sim(i)
                    /\ result.ret.data = Lookup(cache, cache_embeddings[i].key)

\* C6: a failing embed model (raising or returning None) aborts neither get
\* nor put: get is the exact-key lookup and otherwise a miss, put stores the
\* entry under the normalized key, and neither raises.
C6_EmbedFailureTolerated ==
    /\ (result.op = "get" /\ result.outcome \in FailedOutcomes) => result.ret = Miss
    /\ (result.op = "put" /\ result.outcome \in FailedOutcomes)
       => /\ result.ret = Returned
          /\ Has(cache, normalize(result.query))
          /\ Lookup(cache, normalize(result.query)).response = result.response
    /\ \A q \in Queries, o \in FailedOutcomes :
         get(cache, cache_embeddings, similarity_threshold, q, o) =
           IF Has(cache, normalize(q)) THEN Hit(Lookup(cache, normalize(q)), 100) ELSE Miss

C6_Witness ==
    /\ result.op = "put" /\ result.outcome = Raise /\ result.ret = Returned
    /\ Has(cache, normalize(result.query))
    /\ ~Has(cache_embeddings, normalize(result.query))

\* C7: after a put during which the embed model failed, the key has no
\* stored embedding, whatever the cache held for the key before the put.
\* No get with another normalized key finds the entry by similarity.
C7_FailedPutLeavesNoEmbedding ==
    (PutStored(result) /\ result.outcome \in FailedOutcomes)
    => /\ ~Has(cache_embeddings, normalize(result.query))
       /\ \A q \in Queries, o \in Vecs :
            normalize(q) # normalize(result.query)
              => scan(cache_embeddings, o, similarity_threshold, 1, NoneKey, 0).best_key
                   # normalize(result.query)

(***************************************************************************)
(* One cache shared by threads.  CacheAgent takes no lock; a call yields   *)
(* at its embed call and nowhere else.  The embed model's answer is fixed  *)
(* when the call is issued and delivered when the thread resumes.          *)
(***************************************************************************)
\* the calls the threads make: normalized queries, the embed model answering or failing
ConcQueries == {q \in Queries : q = normalize(q)}
ConcOutcomes == {<<1, 0>>, NoneEmb}

\* what every pending get would return if it ran at once on the dicts c, embs
Observe(l, pcs, locals, c, embs) ==
    [u \in Threads |->
        IF pcs[u] = "get_embed"
        THEN l[u] \cup {get(c, embs, similarity_threshold, locals[u].query, locals[u].outcome)}
        ELSE {}]

\* get up to its embed call: lines 37-44
GetCall(t, query, outcome) ==
    /\ pc[t] = "idle" /\ calls[t] < MaxCalls
    /\ calls' = [calls EXCEPT ![t] = @ + 1]
    /\ IF Has(cache, normalize(query))
       THEN /\ tret' = [tret EXCEPT ![t] = Hit(Lookup(cache, normalize(query)), 100)]
            /\ UNCHANGED <<pc, local, lin>>
       ELSE /\ pc' = [pc EXCEPT ![t] = "get_embed"]
            /\ local' = [local EXCEPT ![t] = [op |-> "get", query |-> query, outcome |-> outcome]]
            /\ lin' = [lin EXCEPT ![t] =
                         {get(cache, cache_embeddings, similarity_threshold, query, outcome)}]
            /\ UNCHANGED tret
    /\ UNCHANGED <<cacheVars, result, memVars, extVars>>

\* get from the return of its embed call: lines 44-62
GetResume(t) ==
    /\ pc[t] = "get_embed"
    /\ tret' = [tret EXCEPT ![t] =
                  get_similar(cache, cache_embeddings, similarity_threshold, local[t].outcome)]
    /\ pc' = [pc EXCEPT ![t] = "idle"]
    /\ local' = [local EXCEPT ![t] = NoLocals]
    /\ lin' = [lin EXCEPT ![t] = {}]
    /\ UNCHANGED <<cacheVars, result, calls, memVars, extVars>>

\* put up to its embed call: lines 68-74
PutCall(t, query, response, contexts, token_info) ==
    /\ pc[t] = "idle" /\ calls[t] < MaxCalls
    /\ calls' = [calls EXCEPT ![t] = @ + 1]
    /\ \E ev \in {evict(cache, cache_embeddings, max_size)} :
        IF ev.raised
        THEN /\ tret' = [tret EXCEPT ![t] = Raised("KeyError")]
             /\ UNCHANGED <<cache, cache_embeddings, pc, local, lin>>
        ELSE /\ cache' = ev.cache
             /\ cache_embeddings' = ev.embs
             /\ pc' = [pc EXCEPT ![t] = "put_embed"]
             /\ local' = [local EXCEPT ![t] =
                            [op |-> "put", key |-> normalize(query),
                             data |-> Entry(response, contexts, token_info)]]
             /\ lin' = Observe(lin, pc, local, ev.cache, ev.embs)
             /\ UNCHANGED tret
    /\ UNCHANGED <<max_size, similarity_threshold, result, memVars, extVars>>

\* put from the return of its embed call: lines 74-83
PutResume(t, outcome) ==
    /\ pc[t] = "put_embed"
    /\ \E ins \in {insert(cache, cache_embeddings, local[t].key, local[t].data, outcome)} :
        /\ cache' = ins.cache
        /\ cache_embeddings' = ins.embs
        /\ tret' = [tret EXCEPT ![t] =
                      IF ins.raised THEN Raised("EmbedError") ELSE Returned]
        /\ lin' = Observe(lin, pc, local, ins.cache, ins.embs)
    /\ pc' = [pc EXCEPT ![t] = "idle"]
    /\ local' = [local EXCEPT ![t] = NoLocals]
    /\ UNCHANGED <<max_size, similarity_threshold, result, calls, memVars, extVars>>

\* clear makes no embed call: lines 85-87
ClearCall(t) ==
    /\ pc[t] = "idle" /\ calls[t] < MaxCalls
    /\ calls' = [calls EXCEPT ![t] = @ + 1]
    /\ cache' = <<>>
    /\ cache_embeddings' = <<>>
    /\ tret' = [tret EXCEPT ![t] = Returned]
    /\ lin' = Observe(lin, pc, local, <<>>, <<>>)
    /\ UNCHANGED <<max_size, similarity_threshold, result, pc, local, memVars, extVars>>

NextConc ==
    \/ \E t \in Threads, q \in ConcQueries, o \in ConcOutcomes : GetCall(t, q, o)
    \/ \E t \in Threads : GetResume(t)
    \/ \E t \in Threads, q \in ConcQueries, r \in Responses, c \in Contexts, k \in TokenInfos :
          PutCall(t, q, r, c, k)
    \/ \E t \in Threads, o \in ConcOutcomes : PutResume(t, o)
    \/ \E t \in Threads : ClearCall(t)

\* the app's cache: CacheAgent(max_cache_size >= 1, similarity_threshold = 0.8)
InitConc ==
    /\ Init
    /\ max_size >= 1
    /\ similarity_threshold = 80

SpecConc == InitConc /\ [][NextConc]_vars

\* C8: get, put and clear on a shared cache are atomic with respect to each
\* other: a get that ran while other threads put or cleared returns what a
\* get run at once would have returned in some state the cache was in
\* during the call, a complete entry or a miss, and does not fail.
C8_GetAtomic ==
    [][\A t \in Threads :
         (pc[t] = "get_embed" /\ pc'[t] = "idle")
           => (tret'[t] \in lin[t] /\ tret'[t].kind # "raise")
      ]_vars

\* C9: under any interleaving of put calls on a shared cache the number of
\* entries never exceeds max_size, and a put into a full cache evicts one entry.
C9_PutCriticalSection ==
    Len(cache) <= max_size

(***************************************************************************)
(* ConversationMemory                                                      *)
(***************************************************************************)
NoneInt == 0 - 1       \* Python's None where an int is expected
WindowArgs == {NoneInt} \cup 0..MaxWindow
Contents == {"c1", "c2"}
Roles == {"user", "assistant", "system"}

\* Python's `a or b` on optional ints
PyOr(a, b) == IF a # NoneInt /\ a # 0 THEN a ELSE b

\* ConversationMemory.__init__: self._window_size
init_window_size(window_size_arg, max_messages_arg) ==
    LET size == PyOr(max_messages_arg, window_size_arg) IN
    IF size # NoneInt THEN size ELSE DEFAULT_WINDOW_SIZE

\* Python's seq[start:]
PySliceFrom(seq, start) ==
    LET len == Len(seq)
        from == IF start < 0
                THEN (IF len + start < 0 THEN 0 ELSE len + start)
                ELSE (IF start > len THEN len ELSE start)
    IN SubSeq(seq, from + 1, len)

\* ConversationMemory._trim_to_window
trim_to_window(msgs, ws) ==
    IF Len(msgs) > ws * 2 THEN PySliceFrom(msgs, 0 - (ws * 2)) ELSE msgs

HumanMessage(content) == [role |-> "user", content |-> content]
AIMessage(content) == [role |-> "assistant", content |-> content]

InitMem ==
    /\ CacheDefault
    /\ ThreadsIdle
    /\ \E w \in WindowArgs, m \in WindowArgs : window_size = init_window_size(w, m)
    /\ messages = <<>>
    /\ appended = <<>>
    /\ ExtIdle

add_user_message(content) ==
    /\ Len(appended) < MaxAdds
    /\ messages' = trim_to_window(Append(messages, HumanMessage(content)), window_size)
    /\ appended' = Append(appended, HumanMessage(content))
    /\ UNCHANGED <<cacheVars, result, threadVars, window_size, extVars>>

add_ai_message(content) ==
    /\ Len(appended) < MaxAdds
    /\ messages' = trim_to_window(Append(messages, AIMessage(content)), window_size)
    /\ appended' = Append(appended, AIMessage(content))
    /\ UNCHANGED <<cacheVars, result, threadVars, window_size, extVars>>

add_message(role, content) ==
    IF role = "user" THEN add_user_message(content) ELSE add_ai_message(content)

\* ConversationMemory.clear
clear_memory ==
    /\ messages' = <<>>
    /\ appended' = <<>>
    /\ UNCHANGED <<cacheVars, result, threadVars, window_size, extVars>>

NextMem ==
    \/ \E c \in Contents : add_user_message(c)
    \/ \E c \in Contents : add_ai_message(c)
    \/ \E r \in Roles, c \in Contents : add_message(r, c)
    \/ clear_memory

SpecMem == InitMem /\ [][NextMem]_vars

\* the last n elements of seq, all of it if it has fewer
LastN(seq, n) == IF Len(seq) <= n THEN seq ELSE SubSeq(seq, Len(seq) - n + 1, Len(seq))

\* C10: for every configured window size, after any sequence of added
\* messages the log holds at most 2 x window_size turns, and they are the
\* most recently added ones, in order and unchanged.
C10_WindowInvariant ==
    /\ Len(messages) <= 2 * window_size
    /\ messages = LastN(appended, 2 * window_size)

(***************************************************************************)
(* Python strings: `p in s`, len(s.split())                                *)
(***************************************************************************)
\* p in s
Contains(s, p) == \E i \in 0..(Len(s) - Len(p)) : SubSeq(s, i + 1, i + Len(p)) = p
\* any(p in s for p in patterns)
ContainsAny(s, patterns) == \E p \in patterns : Contains(s, p)
\* len(s.split()): the maximal runs of non-space characters
WordCount(s) ==
    Cardinality({i \in 1..Len(s) : ~IsSpace(s[i]) /\ (i = 1 \/ IsSpace(s[i - 1]))})

(***************************************************************************)
(* ConversationMemory.enrich_query                                         *)
(* A text the code builds from a literal has the literal as one element.   *)
(***************************************************************************)
follow_up_indicators == {
    <<"i", "t">>,
    <<"t", "h", "a", "t">>,
    <<"t", "h", "i", "s">>,
    <<"t", "h", "e", "y">>,
    <<"t", "h", "e", "m">>,
    <<"t", "h", "e", "i", "r">>,
    <<"t", "h", "e", " ", "c", "o", "m", "p", "a", "n", "y">>,
    <<"t", "h", "e", " ", "s", "a", "m", "e">>,
    <<"m", "o", "r", "e", " ", "a", "b", "o", "u", "t">>,
    <<"w", "h", "a", "t", " ", "a", "b", "o", "u", "t">>,
    <<"a", "n", "d", " ", "w", "h", "a", "t">>,
    <<"h", "o", "w", " ", "a", "b", "o", "u", "t">>,
    <<"t", "e", "l", "l", " ", "m", "e", " ", "m", "o", "r", "e">>,
    <<"e", "x", "p", "l", "a", "i", "n", " ", "m", "o", "r", "e">>,
    <<"w", "h", "y">>,
    <<"h", "o", "w", " ", "c", "o", "m", "e">>,
    <<"w", "h", "a", "t", " ", "e", "l", "s", "e">>}

\* the loop over reversed(messages): the content of the latest HumanMessage
\* that is not the query itself, None if there is none
RECURSIVE last_topic(_, _, _)
last_topic(msgs, i, query_lower) ==
    IF i = 0 THEN NoneKey
    ELSE IF msgs[i].role = "user" /\ Strip(Lower(msgs[i].content)) # query_lower
         THEN msgs[i].content
         ELSE last_topic(msgs, i - 1, query_lower)

enrich_query(msgs, query) ==
    LET query_lower == Strip(Lower(query))
        is_follow_up == ContainsAny(query_lower, follow_up_indicators) /\ WordCount(query) < 10
        topic == last_topic(msgs, Len(msgs), query_lower)
    IN  IF msgs = <<>> THEN query
        ELSE IF ~is_follow_up THEN query
        ELSE IF Truthy(topic) /\ topic # query
             THEN query \o <<" (in context of: ">> \o topic \o <<")">>
             ELSE query

(***************************************************************************)
(* Threads of concurrent sessions on the one ConversationMemory of the     *)
(* shared manager.  A thread can be preempted between any two bytecodes;   *)
(* list.append and the slice are single operations of the interpreter.     *)
(***************************************************************************)
MemContents == {<<"a">>, <<"i", "t">>}

\* the list a thread's local `messages` refers to: the live list of the
\* history, or the list it was before another thread replaced it
HeldList(l) == IF l.held = "live" THEN messages ELSE l.frozen

\* add_message up to the append: lines 64-67, 76 (86)
AddAppend(t, role, content) ==
    /\ mpc[t] = "idle" /\ Len(appended) < MaxConcAdds
    /\ \E m \in {IF role = "user" THEN HumanMessage(content) ELSE AIMessage(content)} :
        /\ messages' = Append(messages, m)
        /\ appended' = Append(appended, m)
    /\ mpc' = [mpc EXCEPT ![t] = "trim"]
    /\ UNCHANGED <<cacheVars, result, threadVars, window_size, mlocal, mret, hitlVars, routerVars, mcpVars>>

\* _trim_to_window, line 91: messages = self.chat_history.messages
TrimLoad(t) ==
    /\ mpc[t] = "trim"
    /\ mlocal' = [mlocal EXCEPT ![t] = [op |-> "trim", held |-> "live"]]
    /\ mpc' = [mpc EXCEPT ![t] = "slice"]
    /\ UNCHANGED <<cacheVars, result, threadVars, memVars, mret, hitlVars, routerVars, mcpVars>>

\* _trim_to_window, lines 92-94 up to the slice
TrimSlice(t) ==
    /\ mpc[t] = "slice"
    /\ \E held \in {HeldList(mlocal[t])} :
        IF Len(held) > window_size * 2
        THEN /\ mlocal' = [mlocal EXCEPT ![t] =
                             [op |-> "trim", held |-> "sliced",
                              frozen |-> PySliceFrom(held, 0 - (window_size * 2))]]
             /\ mpc' = [mpc EXCEPT ![t] = "store"]
        ELSE /\ mlocal' = [mlocal EXCEPT ![t] = NoLocals]
             /\ mpc' = [mpc EXCEPT ![t] = "idle"]
    /\ UNCHANGED <<cacheVars, result, threadVars, memVars, mret, hitlVars, routerVars, mcpVars>>

\* _trim_to_window, line 94: the assignment to self.chat_history.messages;
\* the locals of other threads keep the list that was replaced
TrimStore(t) ==
    /\ mpc[t] = "store"
    /\ messages' = mlocal[t].frozen
    /\ mlocal' = [u \in Threads |->
                    IF u = t THEN NoLocals
                    ELSE IF mlocal[u].op = "trim" /\ mlocal[u].held = "live"
                         THEN [op |-> "trim", held |-> "old", frozen |-> messages]
                         ELSE mlocal[u]]
    /\ mpc' = [mpc EXCEPT ![t] = "idle"]
    /\ UNCHANGED <<cacheVars, result, threadVars, window_size, appended, mret, hitlVars, routerVars, mcpVars>>

\* enrich_query reads the history: lines 140-178
EnrichQuery(t, query) ==
    /\ mpc[t] = "idle"
    /\ mret' = [mret EXCEPT ![t] = enrich_query(messages, query)]
    /\ UNCHANGED <<cacheVars, result, threadVars, memVars, mpc, mlocal, hitlVars, routerVars, mcpVars>>

NextMemConc ==
    \/ \E t \in Threads, r \in {"user", "assistant"}, c \in MemContents : AddAppend(t, r, c)
    \/ \E t \in Threads : TrimLoad(t)
    \/ \E t \in Threads : TrimSlice(t)
    \/ \E t \in Threads : TrimStore(t)
    \/ \E t \in Threads, q \in MemContents : EnrichQuery(t, q)

\* ConversationMemory(max_messages = 1) (the manager passes 10)
InitMemConc ==
    /\ InitMem
    /\ window_size = init_window_size(NoneInt, 1)

SpecMemConc == InitMemConc /\ [][NextMemConc]_vars

\* C11: concurrent add_message and enrich_query calls on a shared memory never
\* drop or duplicate a turn: once every call has returned, the log holds each
\* added turn exactly once, in the order added, except for the oldest ones
\* removed by the window trim.
C11_NoTurnLost ==
    (\A t \in Threads : mpc[t] = "idle")
        => messages = LastN(appended, 2 * window_size)

(***************************************************************************)
(* HITLManager.assess_question                                             *)
(***************************************************************************)
complex_patterns == {
    <<"w", "h", "a", "t", " ", "d", "o", "e", "s">>,
    <<"w", "h", "a", "t", " ", "d", "o", " ", "y", "o", "u", " ", "t", "h", "i", "n", "k">>,
    <<"w", "h", "a", "t", " ", "c", "a", "n", " ", "w", "e", " ", "i", "n", "f", "e", "r">>,
    <<"w", "h", "a", "t", " ", "c", "o", "n", "c", "l", "u", "s", "i", "o", "n", "s">>,
    <<"w", "h", "y", " ", "d", "i", "d">>,
    <<"w", "h", "y", " ", "d", "o", "e", "s">>,
    <<"w", "h", "y", " ", "i", "s">>,
    <<"w", "h", "a", "t", "'", "s", " ", "t", "h", "e", " ", "i", "m", "p", "l", "i", "c", "a", "t", "i", "o", "n">>,
    <<"i", "m", "p", "l", "i", "c", "a", "t", "i", "o", "n", "s", " ", "o", "f">>,
    <<"h", "o", "w", " ", "w", "i", "l", "l">>,
    <<"h", "o", "w", " ", "m", "i", "g", "h", "t">>,
    <<"h", "o", "w", " ", "c", "o", "u", "l", "d">>,
    <<"s", "h", "o", "u", "l", "d", " ", "t", "h", "e", " ", "c", "o", "m", "p", "a", "n", "y">>,
    <<"w", "h", "a", "t", " ", "s", "t", "r", "a", "t", "e", "g", "y">>,
    <<"c", "o", "m", "p", "a", "r", "e", " ", "a", "n", "d", " ", "c", "o", "n", "t", "r", "a", "s", "t">>,
    <<"a", "n", "a", "l", "y", "z", "e", " ", "t", "h", "e", " ", "r", "e", "l", "a", "t", "i", "o", "n", "s", "h", "i", "p">>,
    <<"w", "h", "a", "t", "'", "s", " ", "y", "o", "u", "r", " ", "a", "s", "s", "e", "s", "s", "m", "e", "n", "t">>,
    <<"e", "v", "a", "l", "u", "a", "t", "e">>,
    <<"p", "r", "e", "d", "i", "c", "t">>,
    <<"f", "o", "r", "e", "c", "a", "s", "t">>,
    <<"e", "x", "p", "e", "c", "t">>}

moderate_patterns == {
    <<"h", "o", "w", " ", "d", "i", "d">>,
    <<"h", "o", "w", " ", "d", "o", "e", "s">>,
    <<"w", "h", "a", "t", " ", "c", "a", "u", "s", "e", "d">>,
    <<"w", "h", "a", "t", " ", "l", "e", "d", " ", "t", "o">>,
    <<"e", "x", "p", "l", "a", "i", "n">>,
    <<"d", "e", "s", "c", "r", "i", "b", "e">>,
    <<"s", "u", "m", "m", "a", "r", "i", "z", "e">>,
    <<"o", "v", "e", "r", "v", "i", "e", "w">>,
    <<"w", "h", "a", "t", " ", "a", "r", "e", " ", "t", "h", "e", " ", "m", "a", "i", "n">>,
    <<"k", "e", "y">>,
    <<"c", "o", "m", "p", "a", "r", "e">>,
    <<"v", "e", "r", "s", "u", "s">>,
    <<"v", "s">>}

time_words == {
    <<"l", "a", "s", "t", " ", "y", "e", "a", "r">>,
    <<"t", "h", "i", "s", " ", "y", "e", "a", "r">>,
    <<"r", "e", "c", "e", "n", "t">>}

\* str(y) for y in range(2020, 2030)
Digits == {"0", "1", "2", "3", "4", "5", "6", "7", "8", "9"}
year_tokens == {<<"2", "0", "2", d>> : d \in Digits}

vague_indicators == {
    <<"t", "e", "l", "l", " ", "m", "e", " ", "a", "b", "o", "u", "t">>,
    <<"w", "h", "a", "t", " ", "a", "b", "o", "u", "t">>,
    <<"a", "n", "y", "t", "h", "i", "n", "g", " ", "o", "n">>}

TimeQuestion == <<"Which specific year or period are you asking about?">>
VagueQuestion == <<"Could you be more specific? What aspect would you like to know about?">>

\* the two tests of lines 71-76 taken in the other order
complexity_moderate_first(query_lower) ==
    IF ContainsAny(query_lower, moderate_patterns) THEN "moderate"
    ELSE IF ContainsAny(query_lower, complex_patterns) THEN "complex"
    ELSE "simple"

\* lines 71-79
complexity_of(query_lower) ==
    IF ContainsAny(query_lower, complex_patterns) THEN "complex"
    ELSE IF ContainsAny(query_lower, moderate_patterns) THEN "moderate"
    ELSE "simple"

\* the condition of lines 84-85
time_unresolved(query) ==
    ContainsAny(Lower(query), time_words) /\ ~ContainsAny(query, year_tokens)

\* the condition of line 90
vague_short(query) ==
    ContainsAny(Lower(query), vague_indicators) /\ WordCount(query) < 5

\* lines 81-92: the two if statements, in the order of the code
clarification_of(query) ==
    LET start == [needs_clarification |-> FALSE, clarification_question |-> NoneKey]
        after_time == IF time_unresolved(query)
                      THEN [needs_clarification |-> TRUE, clarification_question |-> TimeQuestion]
                      ELSE start
    IN  IF vague_short(query)
        THEN [needs_clarification |-> TRUE, clarification_question |-> VagueQuestion]
        ELSE after_time

assess_question(query) ==
    LET complexity == complexity_of(Lower(query))
        clar == clarification_of(query)
    IN  [confidence |-> "medium",
         complexity |-> complexity,
         needs_clarification |-> clar.needs_clarification,
         clarification_question |-> clar.clarification_question,
         inference_required |-> (complexity = "complex")]

\* the queries assessed: up to MaxWords words joined by single spaces
Words == {
    <<"w", "h", "a", "t">>,
    <<"A", "b", "o", "u", "t">>,
    <<"t", "e", "l", "l">>,
    <<"m", "e">>,
    <<"l", "a", "s", "t">>,
    <<"y", "e", "a", "r">>,
    <<"2", "0", "2", "4">>,
    <<"p", "r", "e", "d", "i", "c", "t">>}

RECURSIVE JoinedUpTo(_)
JoinedUpTo(n) ==
    IF n = 0 THEN {<<>>}
    ELSE LET S == JoinedUpTo(n - 1)
         IN S \cup Words \cup {s \o <<" ">> \o w : s \in S \ {<<>>}, w \in Words}
AssessQueries == JoinedUpTo(MaxWords)

InitAssess ==
    /\ CacheDefault /\ ThreadsIdle /\ MemoryDefault /\ MemThreadsIdle /\ RouterIdle /\ McpIdle
    /\ \E q \in AssessQueries : hitl_args = [op |-> "assess_question", query |-> q]
    /\ hitl_ret = NotReturned

AssessQuestion ==
    /\ hitl_args.op = "assess_question" /\ hitl_ret = NotReturned
    /\ hitl_ret' = assess_question(hitl_args.query)
    /\ UNCHANGED <<cacheVars, result, threadVars, memVars, memThreadVars, hitl_args, routerVars, mcpVars>>

NextAssess == AssessQuestion

SpecAssess == InitAssess /\ [][NextAssess]_vars

\* C12: for every query on which both clarification triggers fire (a relative
\* time reference without a concrete year, and a vague opener with fewer than
\* 5 words), assess_question produces exactly one clarification question and
\* it is the relative-time question, not the vague-query question.
C12_TimePrecedence ==
    (/\ hitl_args.op = "assess_question" /\ hitl_ret # NotReturned
     /\ time_unresolved(hitl_args.query) /\ vague_short(hitl_args.query))
        => /\ hitl_ret.needs_clarification
           /\ hitl_ret.clarification_question = TimeQuestion

(***************************************************************************)
(* HITLManager.assess_answer_confidence                                    *)
(***************************************************************************)
uncertainty_phrases == {
    <<"n", "o", "t", " ", "f", "o", "u", "n", "d">>,
    <<"c", "o", "u", "l", "d", " ", "n", "o", "t", " ", "f", "i", "n", "d">>,
    <<"n", "o", " ", "i", "n", "f", "o", "r", "m", "a", "t", "i", "o", "n">>,
    <<"u", "n", "c", "l", "e", "a", "r">>,
    <<"u", "n", "c", "e", "r", "t", "a", "i", "n">>,
    <<"m", "a", "y">>,
    <<"m", "i", "g", "h", "t">>,
    <<"p", "o", "s", "s", "i", "b", "l", "y">>}

\* any(c.isdigit() for c in answer)
has_numbers(answer) == \E i \in 1..Len(answer) : answer[i] \in Digits
has_dollar(answer) == Contains(answer, <<"$">>)
has_percentage(answer) == Contains(answer, <<"%">>)
has_uncertainty(answer) == ContainsAny(Lower(answer), uncertainty_phrases)

\* the numeric tests placed before the uncertainty test
confidence_numbers_first(query, answer, contexts) ==
    IF contexts = <<>> THEN "uncertain"
    ELSE IF has_numbers(answer) /\ has_dollar(answer) THEN "high"
    ELSE IF has_uncertainty(answer) THEN "low"
    ELSE IF has_numbers(answer) \/ has_dollar(answer) \/ has_percentage(answer) THEN "medium"
    ELSE "low"

assess_answer_confidence(query, answer, contexts) ==
    IF contexts = <<>> THEN "uncertain"
    ELSE IF has_uncertainty(answer) THEN "low"
    ELSE IF has_numbers(answer) /\ has_dollar(answer) THEN "high"
    ELSE IF has_numbers(answer) \/ has_dollar(answer) \/ has_percentage(answer) THEN "medium"
    ELSE "low"

\* the answers assessed
AnswerChars == {"4", "$", "%", "m", "A", "y"}
RECURSIVE AnswersUpTo(_)
AnswersUpTo(n) ==
    IF n = 0 THEN {<<>>}
    ELSE LET S == AnswersUpTo(n - 1) IN S \cup {Append(s, c) : s \in S, c \in AnswerChars}
ConfAnswers == AnswersUpTo(MaxAnswerLen)
ConfContexts == {<<>>} \cup Contexts

InitConfidence ==
    /\ CacheDefault /\ ThreadsIdle /\ MemoryDefault /\ MemThreadsIdle /\ RouterIdle /\ McpIdle
    /\ \E a \in ConfAnswers, c \in ConfContexts :
          hitl_args = [op |-> "assess_answer_confidence",
                       query |-> <<>>, answer |-> a, contexts |-> c]
    /\ hitl_ret = NotReturned

AssessAnswerConfidence ==
    /\ hitl_args.op = "assess_answer_confidence" /\ hitl_ret = NotReturned
    /\ hitl_ret' = [level |-> assess_answer_confidence(hitl_args.query, hitl_args.answer,
                                                       hitl_args.contexts)]
    /\ UNCHANGED <<cacheVars, result, threadVars, memVars, memThreadVars, hitl_args, routerVars, mcpVars>>

NextConfidence == AssessAnswerConfidence

SpecConfidence == InitConfidence /\ [][NextConfidence]_vars

ConfidenceReturned == hitl_args.op = "assess_answer_confidence" /\ hitl_ret # NotReturned
AnswerHasDigit == \E i \in 1..Len(hitl_args.answer) : hitl_args.answer[i] \in Digits
AnswerHasCurrency == \E i \in 1..Len(hitl_args.answer) : hitl_args.answer[i] = "$"
AnswerHasPercent == \E i \in 1..Len(hitl_args.answer) : hitl_args.answer[i] = "%"
AnswerHasUncertainty ==
    \E p \in uncertainty_phrases, i \in 1..Len(hitl_args.answer) :
        /\ i + Len(p) - 1 <= Len(hitl_args.answer)
        /\ \A j \in 1..Len(p) : LowerChar(hitl_args.answer[i + j - 1]) = p[j]

\* C13: assess_answer_confidence is the ordered decision table: no supporting
\* passages gives uncertain; otherwise any uncertainty phrase in the answer
\* gives low regardless of digits, currency or percent signs; otherwise a
\* digit together with a currency symbol gives high; otherwise any one of
\* digit, currency symbol or percent sign gives medium; otherwise low.
C13_ConfidenceTable ==
    ConfidenceReturned =>
        hitl_ret.level =
            IF hitl_args.contexts = <<>> THEN "uncertain"
            ELSE IF AnswerHasUncertainty THEN "low"
            ELSE IF AnswerHasDigit /\ AnswerHasCurrency THEN "high"
            ELSE IF AnswerHasDigit \/ AnswerHasCurrency \/ AnswerHasPercent THEN "medium"
            ELSE "low"

\* an answer with a digit, a currency symbol and an uncertainty phrase, with
\* supporting passages, was scored low
C13_Witness ==
    /\ ConfidenceReturned
    /\ hitl_args.contexts # <<>>
    /\ AnswerHasDigit /\ AnswerHasCurrency /\ AnswerHasUncertainty
    /\ hitl_ret.level = "low"

(***************************************************************************)
(* The session script (app.py) and ManagerAgent.route / route_stream.      *)
(* One session: its own CacheAgent, the manager and its memory.            *)
(***************************************************************************)
RouterPrompts == {
    <<"a">>,
    <<"w", "h", "a", "t", " ", "a", "b", "o", "u", "t", " ", "l", "a", "s", "t", " ", "y", "e", "a", "r">>,
    <<"p", "r", "e", "d", "i", "c", "t">>}
RouterEmbeds == {<<1, 0>>, Raise}
LLMAnswers == {<<"$", "4">>}
LLMErrors == {<<"timeout">>}

\* HITLManager.get_clarification_request: the message of the request, None without one
get_clarification_request(assessment, query) ==
    IF ~assessment.needs_clarification THEN NoneKey
    ELSE IF Truthy(assessment.clarification_question)
         THEN assessment.clarification_question
         ELSE <<"Could you provide more details?">>

\* HITLManager.format_confidence_indicator
format_confidence_indicator(confidence) ==
    IF confidence = "high" THEN <<"High confidence - Based on specific data from the filing">>
    ELSE IF confidence = "medium" THEN <<"Medium confidence - Based on available information">>
    ELSE IF confidence = "low" THEN <<"Lower confidence - Some inference required">>
    ELSE IF confidence = "uncertain" THEN <<"Uncertain - Limited data available">>
    ELSE <<>>

\* ConversationMemory.get_context_summary
RECURSIVE summary_lines(_, _)
summary_lines(msgs, i) ==
    IF i > Len(msgs) THEN <<>>
    ELSE LET role == IF msgs[i].role = "user" THEN "User" ELSE "Assistant"
             content == IF Len(msgs[i].content) > 200
                        THEN SubSeq(msgs[i].content, 1, 200) \o <<"...">>
                        ELSE msgs[i].content
         IN <<"\n", "  ", role, ": ">> \o content \o summary_lines(msgs, i + 1)
get_context_summary(msgs) ==
    IF msgs = <<>> THEN <<>> ELSE <<"Recent conversation:">> \o summary_lines(msgs, 1)

\* route, lines 216-225
contextual_query_of(context_summary, enriched_query) ==
    IF context_summary # <<>>
    THEN <<"CONVERSATION CONTEXT:\n">> \o context_summary
            \o <<"\n\nCURRENT QUESTION: ">> \o enriched_query
            \o <<"\n\nUse the conversation context to better understand the question.">>
    ELSE enriched_query

\* ConversationMemory.add_message on the manager's memory
memory_add(msgs, role, content) ==
    trim_to_window(Append(msgs, IF role = "user" THEN HumanMessage(content)
                                ELSE AIMessage(content)),
                   window_size)

SessionMessage(role, content) == [role |-> role, content |-> content]

NoneMeta == [none |-> TRUE]   \* route's third value when it is None

\* what route_stream yields at position pos of ret.answer: lines 274-278.
\* Here the final element carries no passages.
route_stream_no_contexts(ret, pos) ==
    IF pos <= Len(ret.answer)
    THEN [chunk |-> <<ret.answer[pos]>>, contexts |-> <<>>, is_final |-> FALSE]
    ELSE [chunk |-> <<>>, contexts |-> <<>>, is_final |-> TRUE]

route_stream_element(ret, pos) ==
    IF pos <= Len(ret.answer)
    THEN [chunk |-> <<ret.answer[pos]>>, contexts |-> <<>>, is_final |-> FALSE]
    ELSE [chunk |-> <<>>, contexts |-> ret.contexts, is_final |-> TRUE]

otherVars == <<result, threadVars, memThreadVars, hitlVars, mcpVars>>
cacheConfig == <<max_size, similarity_threshold>>

\* app.py 80-113: a prompt arrives; the cache is looked up; a hit is shown
Prompt(p, outcome) ==
    /\ rpc = "idle" /\ handled < MaxPrompts
    /\ prompt' = p
    /\ before' = [cache |-> cache, cache_embeddings |-> cache_embeddings,
                  messages |-> messages]
    /\ events' = <<"cache_get">>
    /\ route_ret' = NotReturned
    /\ chunks' = <<>>
    /\ stream_pos' = 0
    /\ tool_calls' = 0
    /\ \E c \in {get(cache, cache_embeddings, similarity_threshold, p, outcome)} :
        /\ cached' = c
        /\ IF c.kind = "hit"
           THEN /\ session_messages' = session_messages \o
                       <<SessionMessage("user", p),
                         SessionMessage("assistant", c.data.response)>>
                /\ rpc' = "idle"
                /\ handled' = handled + 1
           ELSE /\ session_messages' = Append(session_messages, SessionMessage("user", p))
                /\ rpc' = "route"
                /\ handled' = handled
    /\ full_response' = <<>>
    /\ app_contexts' = <<>>
    /\ UNCHANGED <<cacheVars, memVars, otherVars, last_contexts, needle_contexts, rlocal>>

\* route, lines 194-225: up to the clarification return or the agent call
RouteStart ==
    /\ rpc = "route"
    /\ last_contexts' = <<>>
    /\ \E assessment \in {assess_question(prompt)},
          with_user \in {memory_add(messages, "user", prompt)} :
        \E clarification \in {get_clarification_request(assessment, prompt)} :
          IF assessment.needs_clarification /\ clarification # NoneKey
          THEN \E response \in {<<"Clarification needed:\n\n">> \o clarification} :
                /\ messages' = memory_add(with_user, "assistant", response)
                /\ appended' = appended \o <<HumanMessage(prompt), AIMessage(response)>>
                /\ route_ret' = [answer |-> response, contexts |-> <<>>,
                                 meta |-> [needs_clarification |-> TRUE]]
                /\ events' = events \o <<"memory_user", "memory_assistant">>
                /\ rlocal' = [op |-> "route", assessment |-> assessment]
                /\ rpc' = "stream"
                /\ stream_pos' = 1
          ELSE /\ messages' = with_user
               /\ appended' = Append(appended, HumanMessage(prompt))
               /\ rlocal' = [op |-> "route", assessment |-> assessment,
                             contextual_query |->
                                 contextual_query_of(get_context_summary(with_user),
                                                     enrich_query(with_user, prompt))]
               /\ events' = events \o <<"memory_user", "invoke">>
               /\ rpc' = "invoke"
               /\ UNCHANGED <<route_ret, stream_pos>>
    /\ UNCHANGED <<cacheVars, window_size, otherVars, prompt, cached, session_messages,
                   needle_contexts, chunks, full_response, app_contexts, handled, before,
                   tool_calls>>

\* the tool search_specific_data, called by the agent: lines 127-140.
\* retrieved: what the needle agent's own search tool stored in its _contexts
\* during this call (NoneKey: it made no search); raised: the needle agent's
\* call failed, which NeedleAgent.answer returns as an answer with no contexts.
\* The event passages_retrieved records that the search of this call found some.
SearchSpecificData(retrieved, raised) ==
    /\ rpc = "invoke" /\ tool_calls < MaxTools
    /\ tool_calls' = tool_calls + 1
    /\ needle_contexts' = IF retrieved = NoneKey THEN needle_contexts ELSE retrieved
    /\ last_contexts' = IF raised THEN <<>> ELSE needle_contexts'
    /\ events' = events
                    \o (IF retrieved \notin {NoneKey, <<>>} THEN <<"passages_retrieved">> ELSE <<>>)
                    \o <<IF raised THEN "needle_raised" ELSE "needle">>
    /\ UNCHANGED <<cacheVars, memVars, otherVars, rpc, prompt, cached, session_messages,
                   rlocal, route_ret, stream_pos, chunks, full_response, app_contexts,
                   handled, before>>

\* the tool get_executive_analysis: lines 155-161; SummarizationAgent.answer
\* returns a failure of its call as an answer too
GetExecutiveAnalysis(raised) ==
    /\ rpc = "invoke" /\ tool_calls < MaxTools
    /\ tool_calls' = tool_calls + 1
    /\ events' = Append(events, IF raised THEN "summary_raised" ELSE "summary")
    /\ UNCHANGED <<cacheVars, memVars, otherVars, rpc, prompt, cached, session_messages,
                   last_contexts, needle_contexts, rlocal, route_ret, stream_pos, chunks,
                   full_response, app_contexts, handled, before>>

\* the tool respond_without_tools: lines 175-176
RespondWithoutTools ==
    /\ rpc = "invoke" /\ tool_calls < MaxTools
    /\ tool_calls' = tool_calls + 1
    /\ events' = Append(events, "respond_without_tools")
    /\ UNCHANGED <<cacheVars, memVars, otherVars, rpc, prompt, cached, session_messages,
                   last_contexts, needle_contexts, rlocal, route_ret, stream_pos, chunks,
                   full_response, app_contexts, handled, before>>

\* route from the return of agent.invoke: lines 241-260.
\* last_content: the content of the last message, NoneKey if there is none
InvokeReturn(last_content) ==
    /\ rpc = "invoke"
    /\ \E raw \in {IF last_content = NoneKey THEN <<"No response generated.">>
                   ELSE last_content} :
       \E confidence \in {assess_answer_confidence(prompt, raw, last_contexts)} :
       \E note \in {format_confidence_indicator(confidence)} :
       \E answer \in {IF rlocal.assessment.complexity = "complex" /\ note # <<>>
                      THEN raw \o <<"\n\n---\n*">> \o note \o <<"*">>
                      ELSE raw} :
        /\ messages' = memory_add(messages, "assistant", answer)
        /\ appended' = Append(appended, AIMessage(answer))
        /\ route_ret' = [answer |-> answer, contexts |-> last_contexts,
                         meta |-> [confidence |-> confidence]]
    /\ events' = Append(events, "memory_assistant")
    /\ rpc' = "stream"
    /\ stream_pos' = 1
    /\ UNCHANGED <<cacheVars, window_size, otherVars, prompt, cached, session_messages,
                   last_contexts, needle_contexts, rlocal, chunks, full_response,
                   app_contexts, handled, before, tool_calls>>

\* route when agent.invoke raises: lines 262-266
InvokeRaise(e) ==
    /\ rpc = "invoke"
    /\ route_ret' = [answer |-> <<"Error processing query: ">> \o e, contexts |-> <<>>,
                     meta |-> NoneMeta]
    /\ events' = Append(events, "invoke_raised")
    /\ rpc' = "stream"
    /\ stream_pos' = 1
    /\ UNCHANGED <<cacheVars, memVars, otherVars, prompt, cached, session_messages,
                   last_contexts, needle_contexts, rlocal, chunks, full_response,
                   app_contexts, handled, before, tool_calls>>

\* agent.invoke never returns: line 233 passes no timeout and nothing else
\* ends the call
InvokeHang ==
    /\ rpc = "invoke"
    /\ rpc' = "hung"
    /\ UNCHANGED <<cacheVars, memVars, otherVars, prompt, cached, session_messages,
                   last_contexts, needle_contexts, rlocal, route_ret, stream_pos, chunks,
                   full_response, app_contexts, handled, before, tool_calls, events>>

\* route_stream yields one character, lines 274-275; the script adds it to
\* full_response, app.py 137-143
StreamChunk ==
    /\ rpc = "stream" /\ stream_pos <= Len(route_ret.answer)
    /\ \E element \in {route_stream_element(route_ret, stream_pos)} :
        /\ chunks' = Append(chunks, element)
        /\ full_response' = full_response \o element.chunk
    /\ stream_pos' = stream_pos + 1
    /\ UNCHANGED <<cacheVars, memVars, otherVars, rpc, prompt, cached, session_messages,
                   last_contexts, needle_contexts, rlocal, route_ret, app_contexts,
                   handled, before, tool_calls, events>>

\* route_stream yields the final element, line 278; the script takes it,
\* app.py 144-146, and stores and shows full_response, app.py 148-178
StreamFinal(token_info, outcome) ==
    /\ rpc = "stream" /\ stream_pos > Len(route_ret.answer)
    /\ \E final \in {route_stream_element(route_ret, stream_pos)} :
        /\ chunks' = Append(chunks, final)
        /\ full_response' = final.chunk
        /\ app_contexts' = final.contexts
    /\ \E ev \in {evict(cache, cache_embeddings, max_size)} :
        /\ ~ev.raised
        /\ \E ins \in {insert(ev.cache, ev.embs, normalize(prompt),
                              Entry(full_response', app_contexts', token_info), outcome)} :
            /\ cache' = ins.cache
            /\ cache_embeddings' = ins.embs
    /\ events' = Append(events, "cache_put")
    /\ session_messages' = Append(session_messages,
                                  SessionMessage("assistant", full_response'))
    /\ rpc' = "idle"
    /\ handled' = handled + 1
    /\ UNCHANGED <<cacheConfig, memVars, otherVars, prompt, cached, last_contexts,
                   needle_contexts, rlocal, route_ret, stream_pos, before, tool_calls>>

\* the consumer stops taking elements: the generator is dropped at a yield
StopConsuming ==
    /\ rpc = "stream" /\ chunks # <<>>
    /\ rpc' = "idle"
    /\ handled' = handled + 1
    /\ events' = Append(events, "stopped")
    /\ UNCHANGED <<cacheVars, memVars, otherVars, prompt, cached, session_messages,
                   last_contexts, needle_contexts, rlocal, route_ret, stream_pos, chunks,
                   full_response, app_contexts, before, tool_calls>>

NextRouter ==
    \/ \E p \in RouterPrompts :
         \E o \in IF Has(cache, normalize(p)) THEN {NotCalled} ELSE RouterEmbeds : Prompt(p, o)
    \/ RouteStart
    \/ \E r \in {NoneKey, <<>>} \cup Contexts, x \in BOOLEAN : SearchSpecificData(r, x)
    \/ \E x \in BOOLEAN : GetExecutiveAnalysis(x)
    \/ RespondWithoutTools
    \/ \E a \in LLMAnswers \cup {NoneKey} : InvokeReturn(a)
    \/ \E e \in LLMErrors : InvokeRaise(e)
    \/ InvokeHang
    \/ StreamChunk
    \/ \E k \in TokenInfos, o \in RouterEmbeds : StreamFinal(k, o)
    \/ StopConsuming

\* the manager's memory: ConversationMemory(max_messages=10)
InitRouter ==
    /\ CacheDefault /\ ThreadsIdle /\ MemThreadsIdle /\ HitlIdle /\ RouterIdle /\ McpIdle
    /\ window_size = init_window_size(NoneInt, 10)
    /\ messages = <<>>
    /\ appended = <<>>

SpecRouter == InitRouter /\ [][NextRouter]_vars

\* every step of the script and of route is taken once it can be; whether and
\* how agent.invoke ends is the collaborator's choice
SpecRouterLive == SpecRouter /\ WF_vars(NextRouter)

(***************************************************************************)
(* Properties of the handling of one prompt                                *)
(***************************************************************************)
RouteReturned == route_ret # NotReturned
\* the terminal state a returned route call is in, by its metadata
Terminal ==
    IF route_ret = NotReturned THEN "none"
    ELSE IF route_ret.meta = NoneMeta THEN "errorReturned"
    ELSE IF route_ret.meta = [needs_clarification |-> TRUE] THEN "clarificationReturned"
    ELSE "answerReturned"
Did(e) == \E i \in 1..Len(events) : events[i] = e
Count(e) == Cardinality({i \in 1..Len(events) : events[i] = e})
LastEvent == IF events = <<>> THEN "none" ELSE events[Len(events)]
CollaboratorEvents == {"invoke", "needle", "needle_raised", "summary", "summary_raised"}
\* the script has finished with the prompt and shown an answer for it
AnswerShown == rpc = "idle" /\ handled > 0 /\ LastEvent \in {"cache_get", "cache_put"}

\* C14: when assess_question flags needs_clarification, the route call ends
\* in clarificationReturned with needs_clarification metadata, the memory
\* gains exactly the user turn followed by one assistant turn holding the
\* clarification message, and during the handling of that query no cache
\* lookup and no call of an answering collaborator is made.
C14_ClarificationGate ==
    (RouteReturned /\ assess_question(prompt).needs_clarification) =>
        /\ Terminal = "clarificationReturned"
        /\ route_ret.answer = <<"Clarification needed:\n\n">>
                                \o assess_question(prompt).clarification_question
        /\ messages = before.messages
                        \o <<HumanMessage(prompt), AIMessage(route_ret.answer)>>
        /\ ~Did("cache_get")
        /\ \A e \in CollaboratorEvents : ~Did(e)

\* C15: when an answering collaborator raises, the route call ends in
\* errorReturned with an error message as the answer and no passages, and the
\* memory gains the user turn only: no assistant turn for the failed attempt,
\* all earlier turns unchanged.
C15_FailurePath ==
    (RouteReturned /\ (Did("invoke_raised") \/ Did("needle_raised") \/ Did("summary_raised"))) =>
        /\ Terminal = "errorReturned"
        /\ Head(route_ret.answer) = "Error processing query: "
        /\ route_ret.contexts = <<>>
        /\ messages = Append(before.messages, HumanMessage(prompt))

\* C16: for a query whose handling ends in errorReturned or
\* clarificationReturned, the cache after the query is the cache before it.
C16_NoCacheWriteOnFailure ==
    (rpc = "idle" /\ Terminal \in {"errorReturned", "clarificationReturned"}) =>
        /\ cache = before.cache
        /\ cache_embeddings = before.cache_embeddings

\* C17: every user query creates exactly one user turn in the memory and the
\* answer shown for it exactly one assistant turn, in that order, on every
\* path on which an answer is shown, a cache hit included.
C17_OneTurnPerQueryAndAnswer ==
    AnswerShown =>
        LET n == Len(before.messages) IN
        /\ Len(messages) = n + 2
        /\ SubSeq(messages, 1, n) = before.messages
        /\ messages[n + 1] = HumanMessage(prompt)
        /\ messages[n + 2].role = "assistant"

C19_RouteTerminates ==
    (rpc = "route") ~> (Terminal # "none")

NonFinal(cs) == SelectSeq(cs, LAMBDA c : ~c.is_final)
RECURSIVE Concat(_)
Concat(cs) == IF cs = <<>> THEN <<>> ELSE Head(cs).chunk \o Concat(Tail(cs))
IsPrefix(s, t) == Len(s) <= Len(t) /\ SubSeq(t, 1, Len(s)) = s

\* C20: route_stream yields a sequence whose last element, and only that one,
\* has is_final and carries the full passage list; the non-final chunks
\* concatenated are the answer route computed; no chunk is yielded before the
\* whole of route (memory updates, agent call, confidence annotation) is
\* done, so that stopping mid-stream leaves those effects in place.
C20_StreamShape ==
    /\ \A i \in 1..Len(chunks) :
          IF chunks[i].is_final
          THEN i = Len(chunks) /\ chunks[i].contexts = route_ret.contexts
               /\ chunks[i].chunk = <<>>
          ELSE chunks[i].contexts = <<>>
    /\ IsPrefix(Concat(NonFinal(chunks)), IF RouteReturned THEN route_ret.answer ELSE <<>>)
    /\ LastEvent = "cache_put"
          => /\ chunks # <<>> /\ chunks[Len(chunks)].is_final
             /\ Concat(NonFinal(chunks)) = route_ret.answer
    /\ chunks # <<>>
          => /\ RouteReturned
             /\ messages = Append(before.messages, HumanMessage(prompt))
                             \o (IF Terminal = "errorReturned" THEN <<>>
                                 ELSE <<AIMessage(route_ret.answer)>>)
             /\ Terminal = "answerReturned"
                  => route_ret.meta.confidence \in {"high", "medium", "low", "uncertain"}

\* the stream of an answer with passages has been taken to its final element
C20_Witness ==
    /\ LastEvent = "cache_put"
    /\ Terminal = "answerReturned"
    /\ Len(chunks) >= 3
    /\ chunks[Len(chunks)].is_final
    /\ chunks[Len(chunks)].contexts # <<>>
    /\ app_contexts = route_ret.contexts

(***************************************************************************)
(* enrich_query on every short log, as route calls it (manager_agent.py    *)
(* 211) and as any other caller of the memory may                          *)
(***************************************************************************)
MaxLog == 2

\* contents of turns: empty, a follow-up word, the same with a trailing
\* space, another in two spellings, and a word that is no indicator
EnrichTexts == {
    <<>>,
    <<"i", "t">>,
    <<"i", "t", " ">>,
    <<"t", "h", "a", "t">>,
    <<"t", "h", "A", "t">>,
    <<"a">>}

\* queries of nine and of ten words, each ending in a follow-up word
NineWords == <<"a", " ", "a", " ", "a", " ", "a", " ", "a", " ", "a", " ", "a", " ", "a", " ", "i", "t">>
TenWords == <<"a", " ", "a", " ", "a", " ", "a", " ", "a", " ", "a", " ", "a", " ", "a", " ", "a", " ", "i", "t">>
EnrichQueries == EnrichTexts \cup {NineWords, TenWords}

EnrichTurns == {HumanMessage(c) : c \in EnrichTexts} \cup {AIMessage(c) : c \in EnrichTexts}
RECURSIVE LogsOfLen(_)
LogsOfLen(n) ==
    IF n = 0 THEN {<<>>}
    ELSE {Append(l, m) : l \in LogsOfLen(n - 1), m \in EnrichTurns}
EnrichLogs == UNION {LogsOfLen(n) : n \in 0..MaxLog}

\* a log of turns added by add_user_message and add_ai_message, none trimmed
InitEnrich ==
    /\ CacheDefault /\ ThreadsIdle /\ ExtIdle
    /\ window_size = DEFAULT_WINDOW_SIZE
    /\ messages \in EnrichLogs
    /\ appended = messages

\* memory.enrich_query(query): lines 127-178
EnrichCall(query) ==
    /\ mpc[1] = "idle" /\ mlocal[1] = NoLocals
    /\ mlocal' = [mlocal EXCEPT ![1] = [op |-> "enrich_query", query |-> query]]
    /\ mret' = [mret EXCEPT ![1] = enrich_query(messages, query)]
    /\ UNCHANGED <<cacheVars, result, threadVars, memVars, mpc, hitlVars, routerVars, mcpVars>>

NextEnrich == \E q \in EnrichQueries : EnrichCall(q)

SpecEnrich == InitEnrich /\ [][NextEnrich]_vars

EnrichReturned == mlocal[1].op = "enrich_query"

\* the positions of the user turns of the log whose content is not q
DifferentUserTurns(q) ==
    {i \in 1..Len(messages) : messages[i].role = "user" /\ messages[i].content # q}

Latest(S) == CHOOSE i \in S : \A j \in S : j <= i

\* C21: enrich_query(q) returns q unchanged unless q has fewer than 10 words,
\* contains a follow-up indicator and the log holds a user turn whose content
\* differs from q; then it returns q followed by " (in context of: T)", T the
\* most recent user turn different from q.  The log is never changed.
C21_EnrichQuery ==
    EnrichReturned =>
        \E q \in {mlocal[1].query} :
            /\ messages = appended
            /\ IF /\ WordCount(q) < 10
                  /\ ContainsAny(Strip(Lower(q)), follow_up_indicators)
                  /\ DifferentUserTurns(q) # {}
               THEN mret[1] = q \o <<" (in context of: ">>
                                \o messages[Latest(DifferentUserTurns(q))].content
                                \o <<")">>
               ELSE mret[1] = q

(***************************************************************************)
(* The keyword router of manager_agent_old.py, which system_builder.py     *)
(* does not build: it imports ManagerAgent from agents.manager_agent       *)
(***************************************************************************)
summary_keywords == {
    <<"o", "v", "e", "r", "v", "i", "e", "w">>,
    <<"s", "u", "m", "m", "a", "r", "i", "z", "e">>,
    <<"s", "u", "m", "m", "a", "r", "y">>,
    <<"h", "i", "g", "h", "-", "l", "e", "v", "e", "l">>,
    <<"m", "a", "i", "n", " ", "t", "o", "p", "i", "c", "s">>,
    <<"g", "e", "n", "e", "r", "a", "l">>,
    <<"t", "r", "e", "n", "d">>,
    <<"o", "v", "e", "r", "a", "l", "l">>,
    <<"b", "r", "o", "a", "d">>,
    <<"b", "i", "g", " ", "p", "i", "c", "t", "u", "r", "e">>,
    <<"i", "n", " ", "g", "e", "n", "e", "r", "a", "l">>,
    <<"t", "e", "l", "l", " ", "m", "e", " ", "a", "b", "o", "u", "t">>}

\* classify_intent: lines 64-92
classify_intent(query) ==
    IF ContainsAny(Lower(query), summary_keywords) THEN "summary" ELSE "needle"

NeedleCalls == Count("needle") + Count("needle_raised")
SummaryCalls == Count("summary") + Count("summary_raised")

\* C22: for every query that is not sent back for clarification, exactly one
\* answering collaborator is invoked, exactly once: the summary agent if the
\* query contains a summary keyword, the needle agent otherwise.
C22_KeywordRouting ==
    (RouteReturned /\ Terminal # "clarificationReturned") =>
        IF classify_intent(prompt) = "summary"
        THEN SummaryCalls = 1 /\ NeedleCalls = 0
        ELSE NeedleCalls = 1 /\ SummaryCalls = 0

(***************************************************************************)
(* assess_question on queries with complex and moderate patterns together, *)
(* and on queries of spaces only                                           *)
(***************************************************************************)
MaxTokens == 3

\* a complex pattern, a moderate one, a complex pattern that holds a
\* moderate one, that moderate one, a space and a letter of no pattern
ComplexityTokens == {
    <<"p", "r", "e", "d", "i", "c", "t">>,
    <<"e", "x", "p", "l", "A", "i", "n">>,
    <<"c", "o", "m", "p", "A", "r", "e", " ", "A", "n", "d", " ", "c", "o", "n", "t", "r", "A", "s", "t">>,
    <<"c", "o", "m", "p", "A", "r", "e">>,
    <<" ">>,
    <<"x">>}

RECURSIVE TokensUpTo(_)
TokensUpTo(n) ==
    IF n = 0 THEN {<<>>}
    ELSE LET S == TokensUpTo(n - 1)
         IN S \cup {s \o w : s \in S, w \in ComplexityTokens}
ComplexityQueries == TokensUpTo(MaxTokens)

InitComplexity ==
    /\ CacheDefault /\ ThreadsIdle /\ MemoryDefault /\ MemThreadsIdle /\ RouterIdle /\ McpIdle
    /\ \E q \in ComplexityQueries : hitl_args = [op |-> "assess_question", query |-> q]
    /\ hitl_ret = NotReturned

SpecComplexity == InitComplexity /\ [][NextAssess]_vars

AssessReturned == hitl_args.op = "assess_question" /\ hitl_ret # NotReturned

\* pattern p stands in the assessed query at position i, whatever the case
MatchesAt(p, i) ==
    /\ i + Len(p) - 1 <= Len(hitl_args.query)
    /\ \A j \in 1..Len(p) : LowerChar(hitl_args.query[i + j - 1]) = p[j]
QueryMatches(patterns) ==
    \E p \in patterns : \E i \in 1..(Len(hitl_args.query) + 1) : MatchesAt(p, i)
QueryIsBlank == \A i \in 1..Len(hitl_args.query) : hitl_args.query[i] = " "

\* C23: any complex pattern gives complex even when a moderate pattern also
\* matches, else any moderate pattern gives moderate, else simple;
\* inference_required is true exactly when the complexity is complex; the
\* confidence of the assessment is never uncertain; an empty or
\* whitespace-only query is simple and asks for no clarification.
C23_ComplexityPrecedence ==
    AssessReturned =>
        /\ hitl_ret.complexity =
              IF QueryMatches(complex_patterns) THEN "complex"
              ELSE IF QueryMatches(moderate_patterns) THEN "moderate"
              ELSE "simple"
        /\ hitl_ret.inference_required = (hitl_ret.complexity = "complex")
        /\ hitl_ret.confidence # "uncertain"
        /\ QueryIsBlank =>
              /\ hitl_ret.complexity = "simple"
              /\ ~hitl_ret.needs_clarification
              /\ hitl_ret.clarification_question = NoneKey

\* a query with a complex and a moderate pattern has been assessed complex
C23_Witness ==
    /\ AssessReturned
    /\ QueryMatches(complex_patterns) /\ QueryMatches(moderate_patterns)
    /\ hitl_ret.complexity = "complex" /\ hitl_ret.inference_required

\* a query of spaces only has been assessed
C23_BlankAssessed == AssessReturned /\ QueryIsBlank /\ hitl_args.query # <<>>

(***************************************************************************)
(* mcp/financial_tools.py.  A list is a sequence, a dict a record.         *)
(***************************************************************************)
loss_indicators == <<
    <<"n", "e", "t", " ", "l", "o", "s", "s">>,
    <<"o", "p", "e", "r", "a", "t", "i", "n", "g", " ", "l", "o", "s", "s">>,
    <<"l", "o", "s", "s", " ", "f", "r", "o", "m", " ", "o", "p", "e", "r", "a", "t", "i", "o", "n", "s">>,
    <<"a", "c", "c", "u", "m", "u", "l", "a", "t", "e", "d", " ", "d", "e", "f", "i", "c", "i", "t">>,
    <<"n", "e", "g", "a", "t", "i", "v", "e", " ", "c", "a", "s", "h", " ", "f", "l", "o", "w">>>>

profit_indicators == <<
    <<"n", "e", "t", " ", "i", "n", "c", "o", "m", "e">>,
    <<"n", "e", "t", " ", "p", "r", "o", "f", "i", "t">>,
    <<"o", "p", "e", "r", "a", "t", "i", "n", "g", " ", "i", "n", "c", "o", "m", "e">>,
    <<"p", "o", "s", "i", "t", "i", "v", "e", " ", "c", "a", "s", "h", " ", "f", "l", "o", "w">>,
    <<"p", "r", "o", "f", "i", "t", "a", "b", "l", "e">>>>

risk_keywords == <<
    <<"r", "i", "s", "k">>,
    <<"u", "n", "c", "e", "r", "t", "a", "i", "n", "t", "y">>,
    <<"c", "h", "a", "l", "l", "e", "n", "g", "e">>,
    <<"c", "o", "m", "p", "e", "t", "i", "t", "i", "o", "n">>,
    <<"r", "e", "g", "u", "l", "a", "t", "o", "r", "y">>,
    <<"c", "o", "m", "p", "l", "i", "a", "n", "c", "e">>,
    <<"l", "i", "t", "i", "g", "a", "t", "i", "o", "n">>,
    <<"l", "a", "w", "s", "u", "i", "t">>,
    <<"d", "e", "b", "t">>,
    <<"l", "e", "v", "e", "r", "a", "g", "e">>,
    <<"l", "i", "q", "u", "i", "d", "i", "t", "y">>,
    <<"g", "o", "i", "n", "g", " ", "c", "o", "n", "c", "e", "r", "n">>,
    <<"m", "a", "t", "e", "r", "i", "a", "l", " ", "w", "e", "a", "k", "n", "e", "s", "s">>,
    <<"i", "m", "p", "a", "i", "r", "m", "e", "n", "t">>,
    <<"r", "e", "s", "t", "r", "u", "c", "t", "u", "r", "i", "n", "g">>,
    <<"c", "o", "n", "c", "e", "n", "t", "r", "a", "t", "i", "o", "n">>,
    <<"d", "e", "p", "e", "n", "d", "e", "n", "c", "y">>,
    <<"c", "y", "b", "e", "r", "s", "e", "c", "u", "r", "i", "t", "y">>,
    <<"v", "o", "l", "a", "t", "i", "l", "i", "t", "y">>,
    <<"i", "n", "f", "l", "a", "t", "i", "o", "n">>,
    <<"r", "e", "c", "e", "s", "s", "i", "o", "n">>,
    <<"d", "o", "w", "n", "t", "u", "r", "n">>>>

\* [x for x in xs if x in text]
FoundIn(xs, text) ==
    LET Found(x) == Contains(text, x) IN SelectSeq(xs, Found)

\* x in xs, for a list xs
InList(x, xs) == \E i \in 1..Len(xs) : xs[i] = x

\* analyze_profitability: lines 109-152
analyze_profitability(text) ==
    LET text_lower == Lower(text)
        losses_found == FoundIn(loss_indicators, text_lower)
        profits_found == FoundIn(profit_indicators, text_lower)
        verdict ==
            IF losses_found # <<>> /\ profits_found = <<>>
            THEN <<"UNPROFITABLE", "Company is reporting losses">>
            ELSE IF profits_found # <<>> /\ losses_found = <<>>
            THEN <<"PROFITABLE", "Company is reporting profits">>
            ELSE IF losses_found # <<>> /\ profits_found # <<>>
            THEN <<"MIXED", "Company has both profitable and unprofitable segments/periods">>
            ELSE <<"UNKNOWN", "Profitability status unclear from text">>
    IN  [status |-> verdict[1],
         assessment |-> verdict[2],
         loss_indicators |-> losses_found,
         profit_indicators |-> profits_found]

\* extract_risk_keywords: lines 155-172
extract_risk_keywords(text) == FoundIn(risk_keywords, Lower(text))

\* extract_dollar_amounts, lines 12-54, extract_percentages, lines 57-83, and
\* extract_fiscal_periods, lines 86-106: every pattern of theirs needs a digit
\* or the words "months ended"; on a text without either, no match
HasDigit(text) == \E i \in 1..Len(text) : text[i] \in Digits
NoAmountOrPeriod(text) ==
    ~HasDigit(text) /\ ~Contains(Lower(text), <<"m", "o", "n", "t", "h", "s">>)
extract_dollar_amounts(text) == IF NoAmountOrPeriod(text) THEN <<>> ELSE <<"match">>
extract_percentages(text) == IF NoAmountOrPeriod(text) THEN <<>> ELSE <<"match">>
extract_fiscal_periods(text) == IF NoAmountOrPeriod(text) THEN <<>> ELSE <<"match">>

PyMin(a, b) == IF a <= b THEN a ELSE b
PyMax(a, b) == IF a >= b THEN a ELSE b

\* lines 210-223
red_flags_of(profitability, risks) ==
    (IF profitability.status = "UNPROFITABLE" THEN <<"Company reporting losses">> ELSE <<>>)
    \o (IF InList(<<"g", "o", "i", "n", "g", " ", "c", "o", "n", "c", "e", "r", "n">>, risks)
        THEN <<"Going concern warning">> ELSE <<>>)
    \o (IF InList(<<"m", "a", "t", "e", "r", "i", "a", "l", " ", "w", "e", "a", "k", "n", "e", "s", "s">>, risks)
        THEN <<"Material weakness in controls">> ELSE <<>>)
    \o (IF Len(risks) > 5 THEN <<"Multiple risk factors identified">> ELSE <<>>)

\* lines 226-228 without the clamp of line 229
health_no_clamp(red_flags, risks) == 100 - Len(red_flags) * 20 - Len(risks) * 2

\* lines 226-229
health_score_of(red_flags, risks) ==
    PyMax(0, PyMin(100, 100 - Len(red_flags) * 20 - Len(risks) * 2))

\* analyze_financial_health: lines 198-238
analyze_financial_health(text) ==
    LET profitability == analyze_profitability(text)
        risks == extract_risk_keywords(text)
        red_flags == red_flags_of(profitability, risks)
    IN  [profitability |-> profitability,
         risk_keywords |-> risks,
         red_flags |-> red_flags,
         health_score |-> health_score_of(red_flags, risks),
         fiscal_periods |-> extract_fiscal_periods(text),
         amounts_found |-> Len(extract_dollar_amounts(text))]

(***************************************************************************)
(* mcp/financial_mcp.py.  A symbol of a literal that is not ASCII is       *)
(* written by its name in square brackets.                                 *)
(***************************************************************************)
\* d.get(k, default)
DictGet(d, k, default) == IF k \in DOMAIN d THEN d[k] ELSE default

\* sep.join(parts), each part a text
RECURSIVE Join(_, _)
Join(parts, sep) ==
    IF parts = <<>> THEN <<>>
    ELSE IF Len(parts) = 1 THEN parts[1]
    ELSE parts[1] \o sep \o Join(Tail(parts), sep)

\* xs[:n]
PyTake(xs, n) == SubSeq(xs, 1, PyMin(n, Len(xs)))

\* str(n) for n >= 0
DigitOf(d) == <<"0", "1", "2", "3", "4", "5", "6", "7", "8", "9">>[d + 1]
RECURSIVE IntToStr(_)
IntToStr(n) == IF n < 10 THEN <<DigitOf(n)>> ELSE Append(IntToStr(n \div 10), DigitOf(n % 10))

\* _format_amounts, lines 88-109, and _format_percentages, lines 111-132:
\* nothing for no result
format_amounts(results) ==
    IF results = <<>> THEN <<>> ELSE <<"**[chart] Key Financial Figures:**">>
format_percentages(results) ==
    IF results = <<>> THEN <<>> ELSE <<"**[chart] Key Percentages:**">>

\* _format_profitability: lines 134-151
format_profitability(res) ==
    LET status == DictGet(res, "status", "unknown")
        Indicators(found) ==
            IF found # <<>>
            THEN <<"\n   Indicators: ">> \o Join(PyTake(found, 3), <<", ">>)
            ELSE <<>>
    IN  IF status = "loss"
        THEN <<"[warning] **Profitability Status:** NET LOSS">>
                \o Indicators(DictGet(res, "loss_indicators", <<>>))
        ELSE IF status = "profit"
        THEN <<"[check] **Profitability Status:** PROFITABLE">>
                \o Indicators(DictGet(res, "profit_indicators", <<>>))
        ELSE <<"[white circle] **Profitability Status:** Unable to determine">>

\* _format_risks: lines 153-162
format_risks(keywords) ==
    IF keywords = <<>> THEN <<>>
    ELSE LET shown == PyTake(keywords, 7)
         IN Join(<<<<"**[warning] Risk Indicators Detected:**">>>>
                   \o [i \in 1..Len(shown) |-> <<"[bullet] ">> \o shown[i]],
                 <<"\n">>)

\* _format_health: lines 164-190; the result of analyze_financial_health is
\* never an empty dict
format_health(res) ==
    LET score == DictGet(res, "overall_score", 0)
        overall ==
            IF score >= 7
            THEN <<"[bullet] Overall: [green circle] Strong (">> \o IntToStr(score) \o <<"/10)">>
            ELSE IF score >= 5
            THEN <<"[bullet] Overall: [yellow circle] Moderate (">> \o IntToStr(score) \o <<"/10)">>
            ELSE <<"[bullet] Overall: [red circle] Weak (">> \o IntToStr(score) \o <<"/10)">>
        Metric(k, line) == IF DictGet(res, k, FALSE) THEN <<<<line>>>> ELSE <<>>
    IN  Join(<<<<"**[hospital] Financial Health Assessment:**">>, overall>>
               \o Metric("has_cash", "[bullet] Cash Position: [check] Adequate")
               \o Metric("has_revenue", "[bullet] Revenue: [check] Present")
               \o Metric("high_debt", "[bullet] Debt Level: [warning] High")
               \o Metric("going_concern", "[bullet] Going Concern: [red circle] Warning Present"),
             <<"\n">>)

amount_words == {<<"r", "e", "v", "e", "n", "u", "e">>, <<"i", "n", "c", "o", "m", "e">>, <<"c", "a", "s", "h">>, <<"d", "e", "b", "t">>, <<"a", "s", "s", "e", "t", "s">>, <<"a", "m", "o", "u", "n", "t">>, <<"h", "o", "w", " ", "m", "u", "c", "h">>, <<"t", "o", "t", "a", "l">>}
profitability_words == {<<"p", "r", "o", "f", "i", "t">>, <<"l", "o", "s", "s">>, <<"p", "r", "o", "f", "i", "t", "a", "b", "l", "e">>, <<"e", "a", "r", "n", "i", "n", "g", "s">>, <<"n", "e", "t", " ", "i", "n", "c", "o", "m", "e">>}
percentage_words == {<<"m", "a", "r", "g", "i", "n">>, <<"g", "r", "o", "w", "t", "h">>, <<"p", "e", "r", "c", "e", "n", "t">>, <<"r", "a", "t", "e">>, <<"r", "a", "t", "i", "o">>, <<"%">>}
risk_words == {<<"r", "i", "s", "k">>, <<"c", "o", "n", "c", "e", "r", "n">>, <<"w", "a", "r", "n", "i", "n", "g">>, <<"c", "h", "a", "l", "l", "e", "n", "g", "e">>, <<"t", "h", "r", "e", "a", "t">>}
health_words == {<<"h", "e", "a", "l", "t", "h">>, <<"o", "v", "e", "r", "v", "i", "e", "w">>, <<"s", "u", "m", "m", "a", "r", "y">>, <<"p", "o", "s", "i", "t", "i", "o", "n">>, <<"s", "t", "a", "t", "u", "s">>, <<"c", "o", "n", "d", "i", "t", "i", "o", "n">>}

\* one `if any(...)` block of run: the output is kept when it is not empty
Section(query_lower, words, output) ==
    IF ContainsAny(query_lower, words) /\ output # <<>> THEN <<output>> ELSE <<>>

\* run: lines 196-244, for the FinancialMCP(enabled=True) of the system
run(query, ctxs) ==
    IF ctxs = <<>> THEN <<>>
    ELSE LET text == Join(ctxs, <<"\n">>)
             query_lower == Lower(query)
             outputs ==
                 Section(query_lower, amount_words,
                         format_amounts(extract_dollar_amounts(text)))
                 \o Section(query_lower, profitability_words,
                            format_profitability(analyze_profitability(text)))
                 \o Section(query_lower, percentage_words,
                            format_percentages(extract_percentages(text)))
                 \o Section(query_lower, risk_words,
                            format_risks(extract_risk_keywords(text)))
                 \o Section(query_lower, health_words,
                            format_health(analyze_financial_health(text)))
         IN  IF outputs # <<>>
             THEN <<"\n\n---\n**MCP Analysis:**\n">> \o Join(outputs, <<"\n\n">>)
             ELSE <<>>

(***************************************************************************)
(* The financial tools on retrieved passages                               *)
(***************************************************************************)
MaxRisk == 9

LossPassage == <<"n", "e", "t", " ", "l", "o", "s", "s">>
ProfitPassage == <<"n", "e", "t", " ", "i", "n", "c", "o", "m", "e">>
GoingConcernPassage == <<"g", "o", "i", "n", "g", " ", "c", "o", "n", "c", "e", "r", "n">>
MaterialWeaknessPassage == <<"m", "A", "t", "e", "r", "i", "A", "l", " ", "w", "e", "A", "k", "n", "e", "s", "s">>
\* the other risk keywords, in upper-case where they have the letter
OtherRiskPassages == <<
    <<"r", "i", "s", "k">>,
    <<"u", "n", "c", "e", "r", "t", "A", "i", "n", "t", "y">>,
    <<"c", "h", "A", "l", "l", "e", "n", "g", "e">>,
    <<"c", "o", "m", "p", "e", "t", "i", "t", "i", "o", "n">>,
    <<"r", "e", "g", "u", "l", "A", "t", "o", "r", "y">>,
    <<"c", "o", "m", "p", "l", "i", "A", "n", "c", "e">>,
    <<"l", "i", "t", "i", "g", "A", "t", "i", "o", "n">>,
    <<"l", "A", "w", "s", "u", "i", "t">>,
    <<"d", "e", "b", "t">>,
    <<"l", "e", "v", "e", "r", "A", "g", "e">>,
    <<"l", "i", "q", "u", "i", "d", "i", "t", "y">>,
    <<"i", "m", "p", "A", "i", "r", "m", "e", "n", "t">>,
    <<"r", "e", "s", "t", "r", "u", "c", "t", "u", "r", "i", "n", "g">>,
    <<"c", "o", "n", "c", "e", "n", "t", "r", "A", "t", "i", "o", "n">>,
    <<"d", "e", "p", "e", "n", "d", "e", "n", "c", "y">>,
    <<"c", "y", "b", "e", "r", "s", "e", "c", "u", "r", "i", "t", "y">>,
    <<"v", "o", "l", "A", "t", "i", "l", "i", "t", "y">>,
    <<"i", "n", "f", "l", "A", "t", "i", "o", "n">>,
    <<"r", "e", "c", "e", "s", "s", "i", "o", "n">>,
    <<"d", "o", "w", "n", "t", "u", "r", "n">>>>

\* passages: none, one or both of a loss and a profit indicator, none, one or
\* both of the two keywords that are red flags, and up to MaxRisk others
McpContexts ==
    {p \o f \o SubSeq(OtherRiskPassages, 1, k) :
        p \in {<<>>, <<LossPassage>>, <<ProfitPassage>>, <<LossPassage, ProfitPassage>>},
        f \in {<<>>, <<GoingConcernPassage>>, <<MaterialWeaknessPassage>>,
               <<GoingConcernPassage, MaterialWeaknessPassage>>},
        k \in 0..MaxRisk}

McpQueries == {<<"p", "r", "o", "f", "i", "t">>, <<"h", "e", "A", "l", "t", "h">>, <<"r", "i", "s", "k">>, <<"x">>}

InitMcp ==
    /\ CacheDefault /\ ThreadsIdle /\ MemoryDefault /\ MemThreadsIdle /\ HitlIdle
    /\ RouterIdle /\ McpIdle

\* the tool AnalyzeFinancialHealth on the text of the passages: lines 84-86
AnalyzeHealthTool(ctxs) ==
    /\ mcp_args.op = "none"
    /\ mcp_args' = [op |-> "analyze_health", contexts |-> ctxs]
    /\ \E res \in {analyze_financial_health(Join(ctxs, <<"\n">>))} :
        mcp_ret' = [health |-> res, output |-> format_health(res)]
    /\ UNCHANGED <<cacheVars, result, threadVars, memVars, memThreadVars, hitlVars, routerVars>>

\* mcp.run(query, contexts), as search_specific_data calls it on passages
\* that are not empty: manager_agent.py 135-136.  profitability and health
\* are what lines 218 and 236 compute on the text
McpRun(query, ctxs) ==
    /\ mcp_args.op = "none"
    /\ ctxs # <<>>
    /\ mcp_args' = [op |-> "run", query |-> query, contexts |-> ctxs]
    /\ \E text \in {Join(ctxs, <<"\n">>)} :
        mcp_ret' = [output |-> run(query, ctxs),
                    profitability |-> analyze_profitability(text),
                    health |-> analyze_financial_health(text)]
    /\ UNCHANGED <<cacheVars, result, threadVars, memVars, memThreadVars, hitlVars, routerVars>>

NextMcp ==
    \/ \E c \in McpContexts : AnalyzeHealthTool(c)
    \/ \E q \in McpQueries, c \in McpContexts : McpRun(q, c)

SpecMcp == InitMcp /\ [][NextMcp]_vars

HealthAnalyzed == mcp_args.op = "analyze_health"

\* what the passages handed to the tool hold, read off the passages
HasPassage(p) == \E i \in 1..Len(mcp_args.contexts) : mcp_args.contexts[i] = p
RiskPassageCount ==
    Cardinality({i \in 1..Len(mcp_args.contexts) :
                    \E j \in 1..Len(risk_keywords) :
                        Lower(mcp_args.contexts[i]) = risk_keywords[j]})
Unprofitable == HasPassage(LossPassage) /\ ~HasPassage(ProfitPassage)
Flag(b) == IF b THEN 1 ELSE 0
RedFlagCount ==
    Flag(Unprofitable) + Flag(HasPassage(GoingConcernPassage))
        + Flag(HasPassage(MaterialWeaknessPassage)) + Flag(RiskPassageCount > 5)
RawScore == 100 - 20 * RedFlagCount - 2 * RiskPassageCount

\* C24: the health score is 100 minus 20 per red flag (unprofitable status,
\* going-concern keyword, material-weakness keyword, more than 5 distinct risk
\* keywords) minus 2 per risk keyword found, clamped to an integer of 0..100;
\* a MIXED, PROFITABLE or UNKNOWN profitability is no red flag.
C24_HealthScore ==
    HealthAnalyzed =>
        /\ mcp_ret.health.health_score \in 0..100
        /\ mcp_ret.health.health_score = IF RawScore < 0 THEN 0 ELSE RawScore
        /\ Len(mcp_ret.health.risk_keywords) = RiskPassageCount
        /\ Len(mcp_ret.health.red_flags) = RedFlagCount
        /\ InList("Company reporting losses", mcp_ret.health.red_flags)
              <=> mcp_ret.health.profitability.status = "UNPROFITABLE"
        /\ (mcp_ret.health.profitability.status = "UNPROFITABLE") <=> Unprofitable

\* the text has all four red flags and so many risk keywords that the
\* difference is negative: the score is clamped to 0
C24_Witness ==
    /\ HealthAnalyzed
    /\ RedFlagCount = 4 /\ RawScore < 0
    /\ mcp_ret.health.health_score = 0

\* a text with loss and profit indicators: MIXED, and no red flag for it
C24_MixedAnalyzed ==
    /\ HealthAnalyzed
    /\ mcp_ret.health.profitability.status = "MIXED"
    /\ mcp_ret.health.red_flags = <<>>

\* run has returned, and the query asked for the profitability section
ProfitabilityShown ==
    mcp_args.op = "run" /\ ContainsAny(Lower(mcp_args.query), profitability_words)
OutputHas(line) == \E i \in 1..Len(mcp_ret.output) : mcp_ret.output[i] = line

\* C28: the profitability line of the MCP Analysis block agrees with the
\* status of analyze_profitability: UNPROFITABLE is shown as a net loss,
\* PROFITABLE as profitable, and only MIXED or UNKNOWN as unable to determine.
C28_ProfitabilityLine ==
    ProfitabilityShown =>
        /\ mcp_ret.profitability.status = "UNPROFITABLE"
              => OutputHas("[warning] **Profitability Status:** NET LOSS")
        /\ mcp_ret.profitability.status = "PROFITABLE"
              => OutputHas("[check] **Profitability Status:** PROFITABLE")
        /\ OutputHas("[white circle] **Profitability Status:** Unable to determine")
              => mcp_ret.profitability.status \in {"MIXED", "UNKNOWN"}

\* run has returned, and the query asked for the financial health section
HealthShown ==
    mcp_args.op = "run" /\ ContainsAny(Lower(mcp_args.query), health_words)

\* the rating of the Overall line of an output
RatingIn(output) ==
    IF \E i \in 1..Len(output) : output[i] = "[bullet] Overall: [green circle] Strong ("
    THEN "Strong"
    ELSE IF \E i \in 1..Len(output) : output[i] = "[bullet] Overall: [yellow circle] Moderate ("
    THEN "Moderate"
    ELSE IF \E i \in 1..Len(output) : output[i] = "[bullet] Overall: [red circle] Weak ("
    THEN "Weak"
    ELSE "none"

\* the bands of _format_health, 7 and 5 of 10, on the scale of the score
RatingBand(score) ==
    IF score >= 70 THEN "Strong" ELSE IF score >= 50 THEN "Moderate" ELSE "Weak"

\* C29: the overall rating shown is a function of the health score of
\* analyze_financial_health: a text of another rating band gets another
\* rating, and a text of score 100 is not rated Weak.
C29_RatingFollowsScore ==
    HealthShown =>
        /\ mcp_ret.health.health_score = 100 => RatingIn(mcp_ret.output) # "Weak"
        /\ \A c \in McpContexts \ {<<>>} :
              RatingBand(analyze_financial_health(Join(c, <<"\n">>)).health_score)
                    # RatingBand(mcp_ret.health.health_score)
                 => RatingIn(run(mcp_args.query, c)) # RatingIn(mcp_ret.output)

(***************************************************************************)
(* What the script stores, and what a route call returns, per prompt       *)
(***************************************************************************)
\* the script has stored the answer to the prompt in the cache
AnswerStored ==
    /\ rpc = "idle" /\ LastEvent = "cache_put" /\ Terminal = "answerReturned"
    /\ Has(cache, normalize(prompt))

\* C25: the answer text stored in the cache for a query is the full answer
\* the router produced for it, the concatenation of the streamed chunks,
\* never an empty or truncated text; a later hit serves that text.
C25_CacheHoldsFullAnswer ==
    /\ AnswerStored =>
          /\ Lookup(cache, normalize(prompt)).response = route_ret.answer
          /\ Lookup(cache, normalize(prompt)).response = Concat(NonFinal(chunks))
          /\ Lookup(cache, normalize(prompt)).response # <<>>
    /\ (rpc = "idle" /\ cached.kind = "hit") => cached.data.response # <<>>

\* C26: the passages and the confidence a route call returns come from
\* passages retrieved during that call: passages of an earlier query are
\* never returned for, or scored in, a later one.
C26_PassagesOfThisCall ==
    RouteReturned =>
        /\ route_ret.contexts # <<>> => Did("passages_retrieved")
        /\ (Terminal = "answerReturned" /\ route_ret.meta.confidence # "uncertain")
              => Did("passages_retrieved")

\* the footer route appends for a confidence, lines 256-258
FooterFor(confidence) ==
    <<"\n\n---\n*">> \o format_confidence_indicator(confidence) \o <<"*">>
EndsWith(s, t) == Len(t) <= Len(s) /\ SubSeq(s, Len(s) - Len(t) + 1, Len(s)) = t

\* the needle agent's search of this call found passages and the needle agent
\* returned them to the manager
PassagesDelivered ==
    \E i \in 1..(Len(events) - 1) :
        events[i] = "passages_retrieved" /\ events[i + 1] = "needle"

\* C30: the confidence route returns is uncertain exactly when no passages
\* were retrieved during the call; an answer obtained without a precise-fact
\* search is uncertain whatever its text; for a complex query the footer of
\* the answer, stored in memory too, is the one of the confidence returned.
C30_UncertainIffNoPassages ==
    (RouteReturned /\ Terminal = "answerReturned") =>
        /\ route_ret.meta.confidence = "uncertain" <=> ~PassagesDelivered
        /\ NeedleCalls = 0 => route_ret.meta.confidence = "uncertain"
        /\ (rlocal.assessment.complexity = "complex"
              /\ format_confidence_indicator(route_ret.meta.confidence) # <<>>)
              => /\ EndsWith(route_ret.answer, FooterFor(route_ret.meta.confidence))
                 /\ messages[Len(messages)] = AIMessage(route_ret.answer)

(***************************************************************************)
(* The two dicts of the cache used by one caller at a time                 *)
(***************************************************************************)
\* C27: every key that has a stored embedding has a cached entry, so the
\* entry lookup that follows a similarity match in get never fails; an
\* eviction removes the oldest entry and its embedding together, and clear
\* empties both dicts.
C27_EmbeddingKeysCached ==
    /\ Keys(cache_embeddings) \subseteq Keys(cache)
    /\ result.op = "get" => result.ret.kind \in {"hit", "miss"}
    /\ (PutStored(result) /\ result.old_key # NoneKey
            /\ result.old_key # normalize(result.query))
          => ~Has(cache, result.old_key) /\ ~Has(cache_embeddings, result.old_key)
    /\ result.op = "clear" => cache = <<>> /\ cache_embeddings = <<>>

\* a get found its entry by similarity, not by its key, in a cache from
\* which an entry had been evicted
C27_Witness ==
    /\ result.op = "get"
    /\ result.ret.kind = "hit" /\ result.ret.similarity < 100
    /\ ~Has(cache, normalize(result.query))
    /\ Len(cache) = max_size
    /\ Len(cache_embeddings) < Len(cache)

\* a put has evicted an entry that had an embedding, and stored one
C27_EvictedTogether ==
    /\ PutStored(result) /\ result.old_key # NoneKey
    /\ ~Has(cache, result.old_key) /\ ~Has(cache_embeddings, result.old_key)
    /\ cache_embeddings # <<>>

====
